---- MODULE Spec2Model ----
(***************************************************************************)
(* Question-pool pipeline of TexasCourtReporterPrep: the document          *)
(* processor (utils/pdf_parser.py), the external generator                 *)
(* (utils/perplexity.py) and the pool manager (process_pdfs.py).           *)
(*                                                                         *)
(* Text is modelled character by character: a Python str is a sequence of  *)
(* one-character strings, so that substring tests, str.replace and the     *)
(* regular expressions of the source are computed, not assumed.            *)
(***************************************************************************)
EXTENDS Integers, Sequences, FiniteSets, TLC

(***************************************************************************)
(* Python str and re primitives used by the source.                        *)
(***************************************************************************)
UpperChars == <<"A","B","C","D","E","F","G","H","I","J","K","L","M","N","O","P","Q","R","S","T","U","V","W","X","Y","Z">>

LowerChars == <<"a","b","c","d","e","f","g","h","i","j","k","l","m","n","o","p","q","r","s","t","u","v","w","x","y","z">>

DigitChars == <<"0","1","2","3","4","5","6","7","8","9">>

\* Op applied to the value of v: a local variable of the source, assigned once
\* and read many times
With(v, Op(_)) == CHOOSE r \in {Op(x) : x \in {v}} : TRUE

Range(f) == {f[i] : i \in DOMAIN f}

IsDigit(c) == c \in Range(DigitChars)

IsUpper(c) == c \in Range(UpperChars)

\* str.split() and \s: the whitespace characters of the modelled alphabet
IsSpace(c) == c \in {" ", "\t", "\n", "\r"}

\* str.isprintable(): every modelled character but the control characters
IsPrintable(c) == c \notin {"\t", "\n", "\r"}

\* \w of the re module
IsWordChar(c) == IsDigit(c) \/ IsUpper(c) \/ c \in Range(LowerChars) \/ c = "_"

LowerChar(c) ==
    IF IsUpper(c) THEN LowerChars[CHOOSE i \in 1..26 : UpperChars[i] = c] ELSE c

\* str.lower()
Lower(s) == [i \in 1..Len(s) |-> LowerChar(s[i])]

\* s[i:].startswith(p), i counted from 1
StartsWithAt(s, i, p) ==
    /\ i >= 1
    /\ i + Len(p) - 1 <= Len(s)
    /\ \A k \in 1..Len(p) : s[i + k - 1] = p[k]

\* str.startswith
StartsWith(s, p) == StartsWithAt(s, 1, p)

\* str.endswith
EndsWith(s, p) == Len(p) <= Len(s) /\ StartsWithAt(s, Len(s) - Len(p) + 1, p)

\* the `in` operator on two str (p is not empty)
Contains(s, p) == \E i \in 1..(Len(s) - Len(p) + 1) : StartsWithAt(s, i, p)

RECURSIVE Flatten(_, _, _)
\* pieces[lo] \o ... \o pieces[hi]
Flatten(pieces, lo, hi) ==
    IF lo > hi THEN <<>>
    ELSE IF lo = hi THEN pieces[lo]
    ELSE LET mid == (lo + hi) \div 2
         IN  Flatten(pieces, lo, mid) \o Flatten(pieces, mid + 1, hi)

RECURSIVE ReplaceFrom(_, _, _, _)
ReplaceFrom(s, i, old, new) ==
    LET hits == {j \in i..Len(s) : StartsWithAt(s, j, old)}
    IN  IF hits = {} THEN SubSeq(s, i, Len(s))
        ELSE LET j == CHOOSE k \in hits : \A m \in hits : k <= m
             IN  SubSeq(s, i, j - 1) \o new \o ReplaceFrom(s, j + Len(old), old, new)

\* str.replace(old, new): every non-overlapping occurrence, left to right
\* (old is not empty)
Replace(s, old, new) == ReplaceFrom(s, 1, old, new)

\* str.strip()
Strip(s) ==
    LET keep == {i \in 1..Len(s) : ~IsSpace(s[i])}
    IN  IF keep = {} THEN <<>>
        ELSE LET a == CHOOSE i \in keep : \A j \in keep : i <= j
                 b == CHOOSE i \in keep : \A j \in keep : i >= j
             IN  SubSeq(s, a, b)

RECURSIVE SplitFrom(_, _, _)
SplitFrom(s, i, c) ==
    LET stops == {j \in i..Len(s) : s[j] = c}
    IN  IF stops = {} THEN <<SubSeq(s, i, Len(s))>>
        ELSE LET j == CHOOSE k \in stops : \A m \in stops : k <= m
             IN  <<SubSeq(s, i, j - 1)>> \o SplitFrom(s, j + 1, c)

\* str.split(c) for a one-character separator
Split(s, c) == SplitFrom(s, 1, c)

RECURSIVE SplitWsFrom(_, _)
SplitWsFrom(s, i) ==
    LET starts == {j \in i..Len(s) : ~IsSpace(s[j])}
    IN  IF starts = {} THEN <<>>
        ELSE LET a == CHOOSE k \in starts : \A m \in starts : k <= m
                 ends == {j \in a..Len(s) : j = Len(s) \/ IsSpace(s[j + 1])}
                 b == CHOOSE k \in ends : \A m \in ends : k <= m
             IN  <<SubSeq(s, a, b)>> \o SplitWsFrom(s, b + 1)

\* str.split(): the maximal runs of non-whitespace
SplitWs(s) == SplitWsFrom(s, 1)

\* sep.join(parts)
Join(parts, sep) ==
    Flatten([i \in 1..Len(parts) |-> IF i = 1 THEN parts[1] ELSE sep \o parts[i]],
            1, Len(parts))

\* last index of the run of characters satisfying a class that starts at i
\* (i - 1 when s[i] is not in the class)
RunEnd(s, i, InClass(_)) ==
    LET stops == {j \in i..(Len(s) + 1) : j = Len(s) + 1 \/ ~InClass(s[j])}
    IN  (CHOOSE k \in stops : \A m \in stops : k <= m) - 1

\* re.findall(r'\d+', s): the maximal digit runs, left to right
RECURSIVE FindNumbersFrom(_, _)
FindNumbersFrom(s, i) ==
    LET starts == {j \in i..Len(s) : IsDigit(s[j])}
    IN  IF starts = {} THEN <<>>
        ELSE LET a == CHOOSE k \in starts : \A m \in starts : k <= m
                 b == RunEnd(s, a, IsDigit)
             IN  <<SubSeq(s, a, b)>> \o FindNumbersFrom(s, b + 1)

FindNumbers(s) == FindNumbersFrom(s, 1)

DigitValue(c) == (CHOOSE i \in 1..10 : DigitChars[i] = c) - 1

RECURSIVE StrToInt(_)
\* int(s) for a digit string
StrToInt(s) ==
    IF Len(s) = 0 THEN 0
    ELSE 10 * StrToInt(SubSeq(s, 1, Len(s) - 1)) + DigitValue(s[Len(s)])

RECURSIVE NatToStr(_)
NatToStr(n) ==
    IF n < 10 THEN <<DigitChars[n + 1]>>
    ELSE NatToStr(n \div 10) \o <<DigitChars[(n % 10) + 1]>>

\* str(n) for an int
IntToStr(n) == IF n < 0 THEN <<"-">> \o NatToStr(0 - n) ELSE NatToStr(n)

\* re.search(r'\b(w)\b', s) for a word w made of \w characters
ContainsWord(s, w) ==
    \E i \in 1..(Len(s) - Len(w) + 1) :
        /\ StartsWithAt(s, i, w)
        /\ (i = 1 \/ ~IsWordChar(s[i - 1]))
        /\ (i + Len(w) - 1 = Len(s) \/ ~IsWordChar(s[i + Len(w)]))

(***************************************************************************)
(* Numbers fixed by the source.                                            *)
(***************************************************************************)
\* QuestionProcessor.MAX_FILE_SIZE
MAX_FILE_SIZE == 20 * 1024 * 1024

\* QuestionProcessor.ALLOWED_MIME_TYPES
ALLOWED_MIME_TYPES == {"application/pdf", "application/x-pdf", "binary/octet-stream"}

\* _validate_question_text: len(words) < 5 or len(words) > 100
MinQuestionWords == 5

MaxQuestionWords == 100

\* _generate_context_aware_wrong_answers: num + 5, num - 5, num * 2
NumericDelta == 5

NumericFactor == 2

(***************************************************************************)
(* String constants of utils/pdf_parser.py.                                *)
(***************************************************************************)
\* QuestionProcessor.CATEGORIES: the keys, in dict order
CategoryNames ==
    <<<<"L","e","g","a","l"," ","&"," ","J","u","d","i","c","i","a","l"," ","T","e","r","m","i","n",
    "o","l","o","g","y">>,<<"P","r","o","f","e","s","s","i","o","n","a","l"," ","S","t","a","n","d",
    "a","r","d","s"," ","&"," ","E","t","h","i","c","s">>,<<"G","r","a","m","m","a","r"," ","&"," ",
    "V","o","c","a","b","u","l","a","r","y">>,<<"T","r","a","n","s","c","r","i","p","t","i","o","n",
    " ","S","t","a","n","d","a","r","d","s">>>>

\* ''
\* QuestionProcessor.CATEGORIES: the keyword list of each key
CategoryKeywords ==
    <<<<<<"l","e","g","a","l">>,<<"j","u","d","i","c","i","a","l">>,<<"c","o","u","r","t">>,<<"l",
    "a","w">>>>,<<<<"e","t","h","i","c","s">>,<<"s","t","a","n","d","a","r","d","s">>,<<"p","r","o",
    "f","e","s","s","i","o","n","a","l">>,<<"c","o","n","d","u","c","t">>>>,<<<<"g","r","a","m","m",
    "a","r">>,<<"v","o","c","a","b","u","l","a","r","y">>,<<"l","a","n","g","u","a","g","e">>,<<"w",
    "r","i","t","i","n","g">>>>,<<<<"t","r","a","n","s","c","r","i","p","t","i","o","n">>,<<"f","o",
    "r","m","a","t">>,<<"r","e","p","o","r","t","i","n","g">>,<<"r","e","c","o","r","d">>>>>>

HeaderSuffixes ==
    <<<<"Q","u","e","s","t","i","o","n","s",":">>,<<"Q","U","E","S","T","I","O","N","S",":">>>>

OptionContinuations ==
    <<<<"A",")">>,<<"B",")">>,<<"C",")">>,<<"D",")">>>>

\* the alternation of the third question pattern, matched ignoring case
PatternQuestionWords ==
    <<<<"w","h","a","t">>,<<"w","h","o">>,<<"w","h","e","r","e">>,<<"w","h","e","n">>,<<"w","h",
    "y">>,<<"h","o","w">>,<<"w","h","i","c","h">>,<<"w","h","o","s","e">>,<<"w","h","o","m">>>>

QuestionWords ==
    <<<<"w","h","a","t">>,<<"w","h","o">>,<<"w","h","e","r","e">>,<<"w","h","e","n">>,<<"w","h",
    "y">>,<<"h","o","w">>,<<"w","h","i","c","h">>,<<"w","h","o","s","e">>,<<"w","h","o","m">>,<<"e",
    "x","p","l","a","i","n">>,<<"d","e","s","c","r","i","b","e">>,<<"d","i","s","c","u","s","s">>,
    <<"d","e","f","i","n","e">>,<<"c","o","m","p","a","r","e">>,<<"c","o","n","t","r","a","s","t">>,
    <<"a","n","a","l","y","z","e">>,<<"e","v","a","l","u","a","t","e">>,<<"l","i","s","t">>,<<"i",
    "d","e","n","t","i","f","y">>>>

VerbWords ==
    <<<<"i","s">>,<<"a","r","e">>,<<"w","a","s">>,<<"w","e","r","e">>,<<"d","o">>,<<"d","o","e",
    "s">>,<<"d","i","d">>,<<"w","i","l","l">>,<<"c","a","n">>,<<"c","o","u","l","d">>,<<"s","h","o",
    "u","l","d">>,<<"w","o","u","l","d">>,<<"h","a","v","e">>,<<"h","a","s">>,<<"h","a","d">>,<<"e",
    "x","p","l","a","i","n">>,<<"d","e","s","c","r","i","b","e">>,<<"d","e","f","i","n","e">>>>

DefinitionWords ==
    <<<<"i","s">>,<<"a","r","e">>,<<"m","e","a","n","s">>>>

\* 'Legal & Judicial Terminology'
DefaultCategory ==
    <<"L","e","g","a","l"," ","&"," ","J","u","d","i","c","i","a","l"," ","T","e","r","m","i","n",
    "o","l","o","g","y">>

\* 'This refers to a different legal concept in '
TplDifferentConcept ==
    <<"T","h","i","s"," ","r","e","f","e","r","s"," ","t","o"," ","a"," ","d","i","f","f","e","r",
    "e","n","t"," ","l","e","g","a","l"," ","c","o","n","c","e","p","t"," ","i","n"," ">>

\* 'While related to '
TplWhileRelated ==
    <<"W","h","i","l","e"," ","r","e","l","a","t","e","d"," ","t","o"," ">>

\* 'the topic'
TplTheTopic ==
    <<"t","h","e"," ","t","o","p","i","c">>

\* ', this is incorrect'
TplThisIsIncorrect ==
    <<","," ","t","h","i","s"," ","i","s"," ","i","n","c","o","r","r","e","c","t">>

\* 'This is a common misconception in '
TplMisconception ==
    <<"T","h","i","s"," ","i","s"," ","a"," ","c","o","m","m","o","n"," ","m","i","s","c","o","n",
    "c","e","p","t","i","o","n"," ","i","n"," ">>

\* 'Incorrect approach in '
TplIncorrectApproach ==
    <<"I","n","c","o","r","r","e","c","t"," ","a","p","p","r","o","a","c","h"," ","i","n"," ">>

\* 'This violates standard practices in '
TplViolates ==
    <<"T","h","i","s"," ","v","i","o","l","a","t","e","s"," ","s","t","a","n","d","a","r","d"," ",
    "p","r","a","c","t","i","c","e","s"," ","i","n"," ">>

\* 'This is not recommended in '
TplNotRecommended ==
    <<"T","h","i","s"," ","i","s"," ","n","o","t"," ","r","e","c","o","m","m","e","n","d","e","d",
    " ","i","n"," ">>

(***************************************************************************)
(* Literals of _generate_wrong_answers and _generate_fallback_wrong_answers *)
(***************************************************************************)
\* category_context[c]['opposites'] for the keys c of category_context in
\* order: the pairs <<key, value>> in dict order
ContextOpposites ==
    <<<<<<<<"p","l","a","i","n","t","i","f","f">>,<<"d","e","f","e","n","d","a","n","t">>>>,<<<<"p",
    "r","o","s","e","c","u","t","i","o","n">>,<<"d","e","f","e","n","s","e">>>>,<<<<"c","i","v","i",
    "l">>,<<"c","r","i","m","i","n","a","l">>>>,<<<<"d","i","r","e","c","t"," ","e","x","a","m","i",
    "n","a","t","i","o","n">>,<<"c","r","o","s","s"," ","e","x","a","m","i","n","a","t","i","o",
    "n">>>>>>,<<<<<<"m","u","s","t">>,<<"s","h","o","u","l","d"," ","n","o","t">>>>,<<<<"r","e","q",
    "u","i","r","e","d">>,<<"o","p","t","i","o","n","a","l">>>>,<<<<"i","m","m","e","d","i","a","t",
    "e","l","y">>,<<"w","i","t","h","i","n"," ","3","0"," ","d","a","y","s">>>>,<<<<"c","o","n","f",
    "i","d","e","n","t","i","a","l">>,<<"p","u","b","l","i","c">>>>>>,<<<<<<"i","t","a","l","i","c",
    "i","z","e">>,<<"b","o","l","d">>>>,<<<<"c","a","p","i","t","a","l","i","z","e">>,<<"l","o","w",
    "e","r","c","a","s","e">>>>,<<<<"v","e","r","b","a","t","i","m">>,<<"p","a","r","a","p","h","r",
    "a","s","e">>>>,<<<<"f","o","r","m","a","l">>,<<"i","n","f","o","r","m","a","l">>>>>>,<<<<<<"r",
    "e","a","l","-","t","i","m","e">>,<<"p","o","s","t","-","s","e","s","s","i","o","n">>>>,<<<<"c",
    "e","r","t","i","f","i","e","d">>,<<"u","n","o","f","f","i","c","i","a","l">>>>,<<<<"o","r","i",
    "g","i","n","a","l">>,<<"c","o","p","y">>>>,<<<<"s","e","a","l","e","d">>,<<"p","u","b","l","i",
    "c">>>>>>>>

\* category_context[c]['variations']
ContextVariations ==
    <<<<<<"T","h","e"," ","t","e","r","m"," ","r","e","f","e","r","s"," ","t","o"," ","a"," ","d",
    "i","f","f","e","r","e","n","t"," ","l","e","g","a","l"," ","c","o","n","c","e","p","t">>,<<"T",
    "h","i","s"," ","d","e","f","i","n","i","t","i","o","n"," ","a","p","p","l","i","e","s"," ","t",
    "o"," ","a"," ","d","i","f","f","e","r","e","n","t"," ","j","u","r","i","s","d","i","c","t","i",
    "o","n">>,<<"T","h","i","s"," ","i","s"," ","a"," ","c","o","m","m","o","n"," ","m","i","s","c",
    "o","n","c","e","p","t","i","o","n"," ","b","u","t"," ","i","n","c","o","r","r","e","c","t">>>>,
    <<<<"T","h","i","s"," ","w","o","u","l","d"," ","v","i","o","l","a","t","e"," ","e","t","h","i",
    "c","a","l"," ","g","u","i","d","e","l","i","n","e","s">>,<<"T","h","i","s"," ","i","s"," ","n",
    "o","t"," ","c","o","n","s","i","s","t","e","n","t"," ","w","i","t","h"," ","p","r","o","f","e",
    "s","s","i","o","n","a","l"," ","s","t","a","n","d","a","r","d","s">>,<<"T","h","i","s"," ","p",
    "r","a","c","t","i","c","e"," ","i","s"," ","n","o"," ","l","o","n","g","e","r"," ","a","c","c",
    "e","p","t","e","d">>>>,<<<<"T","h","i","s"," ","f","o","r","m","a","t","t","i","n","g"," ","i",
    "s"," ","i","n","c","o","r","r","e","c","t"," ","a","c","c","o","r","d","i","n","g"," ","t","o",
    " ","s","t","a","n","d","a","r","d","s">>,<<"T","h","i","s"," ","i","s"," ","a","n"," ","o","u",
    "t","d","a","t","e","d"," ","s","t","y","l","e"," ","g","u","i","d","e","l","i","n","e">>,<<"T",
    "h","i","s"," ","v","i","o","l","a","t","e","s"," ","c","u","r","r","e","n","t"," ","f","o","r",
    "m","a","t","t","i","n","g"," ","r","u","l","e","s">>>>,<<<<"T","h","i","s"," ","f","o","r","m",
    "a","t"," ","i","s"," ","n","o","t"," ","a","c","c","e","p","t","e","d"," ","i","n"," ","l","e",
    "g","a","l"," ","t","r","a","n","s","c","r","i","p","t","s">>,<<"T","h","i","s"," ","v","i","o",
    "l","a","t","e","s"," ","t","r","a","n","s","c","r","i","p","t","i","o","n"," ","g","u","i","d",
    "e","l","i","n","e","s">>,<<"T","h","i","s"," ","i","s"," ","n","o","t"," ","t","h","e"," ","c",
    "o","r","r","e","c","t"," ","p","r","o","c","e","d","u","r","e">>>>>>

\* legal_terms: the pairs <<term, replacement>> in dict order
LegalTerms ==
    <<<<<<"p","l","a","i","n","t","i","f","f">>,<<"d","e","f","e","n","d","a","n","t">>>>,<<<<"d",
    "e","f","e","n","d","a","n","t">>,<<"p","l","a","i","n","t","i","f","f">>>>,<<<<"c","o","u","r",
    "t">>,<<"j","u","r","y">>>>,<<<<"j","u","d","g","e">>,<<"a","t","t","o","r","n","e","y">>>>,
    <<<<"t","e","s","t","i","m","o","n","y">>,<<"s","t","a","t","e","m","e","n","t">>>>,<<<<"e","x",
    "h","i","b","i","t">>,<<"d","o","c","u","m","e","n","t">>>>,<<<<"d","e","p","o","s","i","t","i",
    "o","n">>,<<"h","e","a","r","i","n","g">>>>,<<<<"t","r","i","a","l">>,<<"h","e","a","r","i","n",
    "g">>>>,<<<<"w","i","t","n","e","s","s">>,<<"p","a","r","t","y">>>>,<<<<"m","o","t","i","o",
    "n">>,<<"p","e","t","i","t","i","o","n">>>>>>

\* the answers returned for a correct answer of fewer than three words
ShortAnswerFallbacks ==
    <<<<"T","h","i","s"," ","i","s"," ","n","o","t"," ","t","h","e"," ","c","o","r","r","e","c","t",
    " ","p","r","o","c","e","d","u","r","e"," ","o","r"," ","d","e","f","i","n","i","t","i","o","n",
    ".">>,<<"T","h","e"," ","a","n","s","w","e","r"," ","c","o","n","t","a","i","n","s"," ","i","n",
    "c","o","r","r","e","c","t"," ","i","n","f","o","r","m","a","t","i","o","n"," ","o","r"," ","p",
    "r","o","c","e","s","s",".">>,<<"T","h","i","s"," ","e","x","p","l","a","n","a","t","i","o","n",
    " ","i","s"," ","n","o","t"," ","a","c","c","u","r","a","t","e"," ","f","o","r"," ","t","h","i",
    "s"," ","c","o","n","t","e","x","t",".">>>>

\* 'The opposite approach is correct: ', and the two other generic answers
GenericAnswers ==
    <<<<"T","h","e"," ","o","p","p","o","s","i","t","e"," ","a","p","p","r","o","a","c","h"," ","i",
    "s"," ","c","o","r","r","e","c","t",":"," ">>,<<"T","h","i","s"," ","v","a","r","i","e","s"," ",
    "b","y"," ","j","u","r","i","s","d","i","c","t","i","o","n"," ","a","n","d"," ","i","s"," ","n",
    "o","t"," ","s","t","a","n","d","a","r","d","i","z","e","d">>,<<"T","h","e","r","e"," ","i","s",
    " ","n","o"," ","s","p","e","c","i","f","i","c"," ","r","e","q","u","i","r","e","m","e","n","t",
    " ","f","o","r"," ","t","h","i","s"," ","i","n"," ","c","o","u","r","t"," ","r","e","p","o","r",
    "t","i","n","g">>>>

\* the words of the negation step, each with its replacement
Negations ==
    <<<<<<"m","u","s","t">>,<<"s","h","o","u","l","d"," ","n","o","t">>>>,<<<<"s","h","o","u","l",
    "d">>,<<"s","h","o","u","l","d"," ","n","o","t">>>>,<<<<"i","s">>,<<"i","s"," ","n","o",
    "t">>>>>>

\* correct answers handed to the synthesizers
SampleAnswers ==
    <<<<"x">>,<<" ">>,<<"a"," ","b"," ","c">>,<<"T","h","e"," ","C","o","u","r","t"," ","m","u","s",
    "t"," ","f","i","l","e"," ","i","t">>,<<"p","a","y"," ","5"," ","a","n","d"," ","1","0"," ","n",
    "o","w">>,<<"T","h","e"," ","p","l","a","i","n","t","i","f","f"," ","i","s"," ","i","n"," ","c",
    "o","u","r","t"," ","a","t"," ","t","r","i","a","l">>,<<"I","t"," ","s","h","o","u","l","d"," ",
    "b","e"," ","c","e","r","t","i","f","i","e","d"," ","a","n","d"," ","s","e","a","l","e","d">>,
    <<"U","s","e"," ","f","o","r","m","a","l"," ","v","e","r","b","a","t","i","m"," ","s","t","y",
    "l","e">>,<<"F","i","l","e"," ","i","t"," ","i","m","m","e","d","i","a","t","e","l","y"," ","a",
    "t"," ","t","h","e"," ","c","i","v","i","l"," ","c","o","u","r","t">>,<<"T","h","e"," ","l","i",
    "m","i","t"," ","i","s"," ","3","0"," ","d","a","y","s">>,<<"W","i","t","h","i","n"," ","3","0",
    " ","d","a","y","s">>>>

\* wrong answers of a question of the generator
ApiWrongAnswers ==
    <<<<"I","t"," ","i","s"," ","a"," ","s","w","o","r","n"," ","s","t","a","t","e","m","e","n",
    "t">>,<<"I","t"," ","i","s"," ","a"," ","c","o","u","r","t"," ","o","r","d","e","r">>,<<"I","t",
    " ","i","s"," ","a"," ","l","e","g","a","l"," ","b","r","i","e","f">>>>

(***************************************************************************)
(* utils/pdf_parser.py: QuestionProcessor.                                 *)
(***************************************************************************)

\* re.sub(r'c+', 'c', s): a run of the character c becomes one c
CollapseRuns(s, c) ==
    Flatten([i \in 1..Len(s) |->
                IF s[i] = c /\ i > 1 /\ s[i - 1] = c THEN <<>> ELSE <<s[i]>>],
            1, Len(s))

\* re.sub(r'([.?!])([A-Z])', r'\1 \2', s)
SpaceAfterPunct(s) ==
    Flatten([i \in 1..Len(s) |->
                IF s[i] \in {".", "?", "!"} /\ i < Len(s) /\ IsUpper(s[i + 1])
                THEN <<s[i], " ">> ELSE <<s[i]>>],
            1, Len(s))

\* re.sub(r'\n{3,}', '\n\n', s): of a run of newlines the first two are kept
CollapseNewlines(s) ==
    Flatten([i \in 1..Len(s) |->
                IF i > 2 /\ s[i] = "\n" /\ s[i - 1] = "\n" /\ s[i - 2] = "\n"
                THEN <<>> ELSE <<s[i]>>],
            1, Len(s))

NonEmpty(l) == Len(l) > 0

KeepPrintable(c) == IsPrintable(c) \/ c \in {"\n", "\t"}

NormalizeLine(line) == Join(SplitWs(line), <<" ">>)

\* QuestionProcessor._clean_text
CleanText(text) ==
    IF Len(text) = 0 THEN <<>>
    ELSE LET printable == SelectSeq(text, KeepPrintable)
             untabbed == [i \in 1..Len(printable) |->
                             IF printable[i] = "\t" THEN " " ELSE printable[i]]
             raw == Split(untabbed, "\n")
             normal == [i \in 1..Len(raw) |-> NormalizeLine(raw[i])]
             lines == SelectSeq(normal, NonEmpty)
             joined == Join(lines, <<"\n">>)
             marks == CollapseRuns(CollapseRuns(joined, "?"), ".")
         IN  Strip(CollapseNewlines(SpaceAfterPunct(marks)))

\* the score of one category: the number of its keywords found in the text
KeywordScore(textLower, c) ==
    Cardinality({k \in 1..Len(CategoryKeywords[c]) :
                    Contains(textLower, Lower(CategoryKeywords[c][k]))})

\* QuestionProcessor._detect_category; context is self.current_category
\* (<<>> for None).  max() returns the first key with the highest score.
DetectCategory(text, context) ==
    IF Len(context) > 0 THEN context
    ELSE LET textLower == Lower(text)
             cats == 1..Len(CategoryNames)
         IN  IF \E c \in cats : KeywordScore(textLower, c) > 0
             THEN CategoryNames[
                    CHOOSE c \in cats :
                        /\ \A d \in cats :
                              KeywordScore(textLower, d) <= KeywordScore(textLower, c)
                        /\ \A d \in cats :
                              d < c => KeywordScore(textLower, d) < KeywordScore(textLower, c)]
             ELSE DefaultCategory

\* QuestionProcessor._validate_question_text
ValidateQuestionText(text) ==
    LET t == Strip(text)
        words == SplitWs(t)
    IN  /\ Len(text) > 0
        /\ EndsWith(t, <<"?">>)
        /\ Len(words) >= MinQuestionWords
        /\ Len(words) <= MaxQuestionWords
        /\ \E w \in Range(QuestionWords) : ContainsWord(Lower(t), w)
        /\ \E w \in Range(VerbWords) : ContainsWord(Lower(t), w)

\* [^?]+\? matched at position p: one character that is not "?", then the
\* first "?" after it
QuestionTailAt(line, p) ==
    /\ p <= Len(line)
    /\ line[p] /= "?"
    /\ \E j \in (p + 1)..Len(line) : line[j] = "?"

\* the positions p..q+1 reached from p by \s* (q the end of the whitespace run)
AfterSpaces(line, p) == p..(RunEnd(line, p, IsSpace) + 1)

\* positions where (?:\d+\.?\s*)? can end when it starts at 1
AfterNumberPrefix(line) ==
    {1} \cup UNION {
        UNION { AfterSpaces(line, b) :
                b \in {a + 1} \cup
                      (IF a < Len(line) /\ line[a + 1] = "." THEN {a + 2} ELSE {}) }
        : a \in 1..RunEnd(line, 1, IsDigit) }

\* r'^(?:\d+\.?\s*)?(?:Q:)?\s*([^?]+\?)' with re.IGNORECASE
MatchesNumberedPattern(line) ==
    LET afterQ == AfterNumberPrefix(line) \cup
                  {p + 2 : p \in {r \in AfterNumberPrefix(line) :
                                     StartsWithAt(Lower(line), r, <<"q", ":">>)}}
    IN  \E p \in afterQ : \E q \in AfterSpaces(line, p) : QuestionTailAt(line, q)

\* r'^[...\-*]\s*([^?]+\?)': the bullet characters of the modelled alphabet
MatchesBulletPattern(line) ==
    /\ Len(line) > 0
    /\ line[1] \in {"-", "*"}
    /\ \E q \in AfterSpaces(line, 2) : QuestionTailAt(line, q)

\* r'^(?:What|Who|Where|When|Why|How|Which|Whose|Whom)[^?]+\?' with re.IGNORECASE
MatchesQuestionWordPattern(line) ==
    \E w \in Range(PatternQuestionWords) :
        /\ StartsWith(Lower(line), w)
        /\ QuestionTailAt(line, Len(w) + 1)

\* is_question of _extract_question_sections
IsQuestionLine(line) ==
    \/ MatchesNumberedPattern(line)
    \/ MatchesBulletPattern(line)
    \/ MatchesQuestionWordPattern(line)

\* re.split(r'\n{2,}', text): the pieces between runs of two or more newlines
RECURSIVE SplitBlocksFrom(_, _)
SplitBlocksFrom(s, i) ==
    LET seps == {j \in i..(Len(s) - 1) :
                    /\ s[j] = "\n" /\ s[j + 1] = "\n"
                    /\ (j = 1 \/ s[j - 1] /= "\n")}
    IN  IF seps = {} THEN <<SubSeq(s, i, Len(s))>>
        ELSE LET j == CHOOSE k \in seps : \A m \in seps : k <= m
             IN  <<SubSeq(s, i, j - 1)>> \o
                 SplitBlocksFrom(s, RunEnd(s, j, LAMBDA c : c = "\n") + 1)

SplitBlocks(s) == SplitBlocksFrom(s, 1)

\* the header test of _extract_question_sections
IsCategoryHeader(block) ==
    \E c \in 1..Len(CategoryNames) :
        /\ StartsWith(Lower(block), Lower(CategoryNames[c]))
        /\ \E x \in Range(HeaderSuffixes) : EndsWith(block, x)

\* next(cat for cat in CATEGORIES if block.lower().startswith(cat.lower()))
HeaderCategory(block) ==
    CategoryNames[CHOOSE c \in 1..Len(CategoryNames) :
        /\ StartsWith(Lower(block), Lower(CategoryNames[c]))
        /\ \A d \in 1..(c - 1) : ~StartsWith(Lower(block), Lower(CategoryNames[d]))]

\* "Save previous question if exists": the pair is kept when the question has
\* answer lines and passes _validate_question_text
FlushQuestion(st) ==
    IF st.hasQuestion /\ Len(st.answer) > 0 /\ ValidateQuestionText(st.question)
    THEN Append(st.sections, <<st.question, Strip(Join(st.answer, <<" ">>))>>)
    ELSE st.sections

\* one iteration of the loop over the lines of a block
ScanLine(st, rawLine) ==
    LET line == Strip(rawLine)
    IN  IF Len(line) = 0 THEN st
        ELSE IF IsQuestionLine(line)
        THEN [st EXCEPT !.sections = FlushQuestion(st),
                        !.hasQuestion = TRUE, !.question = line, !.answer = <<>>]
        ELSE IF st.hasQuestion
        THEN IF /\ Len(st.answer) = 0
                /\ \E x \in Range(OptionContinuations) : StartsWith(line, x)
             THEN [st EXCEPT !.question = st.question \o <<" ">> \o line]
             ELSE [st EXCEPT !.answer = Append(st.answer, line)]
        ELSE st

RECURSIVE ScanLines(_, _, _)
ScanLines(st, lines, i) ==
    IF i > Len(lines) THEN st ELSE ScanLines(ScanLine(st, lines[i]), lines, i + 1)

\* one iteration of the loop over the blocks; st.category is self.current_category
ScanBlock(st, rawBlock) ==
    LET block == Strip(rawBlock)
    IN  IF Len(block) = 0 THEN st
        ELSE IF IsCategoryHeader(block)
        THEN [st EXCEPT !.category = HeaderCategory(block)]
        ELSE LET start == [st EXCEPT !.hasQuestion = FALSE, !.question = <<>>,
                                     !.answer = <<>>]
                 done == ScanLines(start, Split(block, "\n"), 1)
             IN  [done EXCEPT !.sections = FlushQuestion(done)]

RECURSIVE ScanBlocks(_, _, _)
ScanBlocks(st, blocks, i) ==
    IF i > Len(blocks) THEN st ELSE ScanBlocks(ScanBlock(st, blocks[i]), blocks, i + 1)

\* QuestionProcessor._extract_question_sections: the (question, answer) pairs
\* and the value it leaves in self.current_category (context on entry)
ExtractQuestionSections(text, context) ==
    LET st == ScanBlocks([sections |-> <<>>, category |-> context, hasQuestion |-> FALSE,
                          question |-> <<>>, answer |-> <<>>],
                         SplitBlocks(text), 1)
    IN  [sections |-> st.sections, current_category |-> st.category]

IsNotNewline(c) == c /= "\n"

\* where group 2 of r'([A-D])\.\s*([^\n]+)' starts when the pattern is tried at
\* i (0 when it does not match there): \s* is greedy and gives characters back
\* until [^\n]+ finds one character
OptionTextStart(s, i) ==
    IF /\ i + 1 <= Len(s)
       /\ s[i] \in {"A", "B", "C", "D"}
       /\ s[i + 1] = "."
    THEN LET starts == {p \in AfterSpaces(s, i + 2) : p <= Len(s) /\ s[p] /= "\n"}
         IN  IF starts = {} THEN 0
             ELSE CHOOSE p \in starts : \A q \in starts : q <= p
    ELSE 0

\* re.finditer(option_pattern, text): the (letter, answer.strip()) pairs of the
\* matches, left to right, each search resuming after the previous match
RECURSIVE OptionMatchesFrom(_, _)
OptionMatchesFrom(s, i) ==
    LET hits == {j \in i..Len(s) : OptionTextStart(s, j) > 0}
    IN  IF hits = {} THEN <<>>
        ELSE LET j == CHOOSE k \in hits : \A m \in hits : k <= m
                 p == OptionTextStart(s, j)
                 e == RunEnd(s, p, IsNotNewline)
             IN  <<[letter |-> s[j], answer |-> Strip(SubSeq(s, p, e))]>> \o
                 OptionMatchesFrom(s, e + 1)

\* QuestionProcessor._extract_answer_options: found is FALSE for None; options
\* maps a letter to the answer of its last match
ExtractAnswerOptions(text) ==
    LET ms == OptionMatchesFrom(text, 1)
        letters == {ms[k].letter : k \in 1..Len(ms)}
        last(l) == CHOOSE k \in 1..Len(ms) :
                      /\ ms[k].letter = l
                      /\ \A m \in 1..Len(ms) : ms[m].letter = l => m <= k
    IN  IF letters = {"A", "B", "C", "D"}
        THEN [found |-> TRUE, options |-> [l \in letters |-> ms[last(l)].answer]]
        ELSE [found |-> FALSE, options |-> <<>>]

\* self.CATEGORIES.get(category, [])
KeywordsOf(category) ==
    IF \E c \in 1..Len(CategoryNames) : CategoryNames[c] = category
    THEN CategoryKeywords[CHOOSE c \in 1..Len(CategoryNames) : CategoryNames[c] = category]
    ELSE <<>>

\* the "Numerical answer" branch: int(numbers[0]) replaced by itself plus 5,
\* minus 5 and times 2, each by str.replace on the whole answer
NumericWrongAnswers(correct_answer) ==
    LET num == StrToInt(FindNumbers(correct_answer)[1])
    IN  << Replace(correct_answer, IntToStr(num), IntToStr(num + NumericDelta)),
           Replace(correct_answer, IntToStr(num), IntToStr(num - NumericDelta)),
           Replace(correct_answer, IntToStr(num), IntToStr(num * NumericFactor)) >>

\* QuestionProcessor._generate_context_aware_wrong_answers
GenerateContextAwareWrongAnswers(correct_answer, category) ==
    LET keywords == KeywordsOf(category)
    IN  IF \E w \in Range(DefinitionWords) : Contains(Lower(correct_answer), w)
        THEN << TplDifferentConcept \o category,
                TplWhileRelated \o (IF Len(keywords) > 0 THEN keywords[1] ELSE TplTheTopic)
                                \o TplThisIsIncorrect,
                TplMisconception \o category >>
        ELSE IF Len(FindNumbers(correct_answer)) > 0
        THEN NumericWrongAnswers(correct_answer)
        ELSE << TplIncorrectApproach \o category,
                TplViolates \o category,
                TplNotRecommended \o category >>

\* Question.__post_init__: the text that is hashed.  sha256 is modelled as
\* injective, so the digest is the hashed text itself.
ContentHash(question_text, correct_answer, wrong_answers) ==
    question_text \o <<"|">> \o correct_answer \o <<"|">> \o Join(wrong_answers, <<"|">>)

\* the dataclass Question of pdf_parser.py
MakeQuestion(question_text, correct_answer, wrong_answers, category, source_file) ==
    [question_text |-> question_text,
     correct_answer |-> correct_answer,
     wrong_answers |-> wrong_answers,
     category |-> category,
     source_file |-> source_file,
     content_hash |-> ContentHash(question_text, correct_answer, wrong_answers)]

\* the dataclass ProcessingError (the message is determined by the type)
ProcessingError(error_type, file_name) ==
    [error_type |-> error_type, file_name |-> file_name]

\* validate_file with the check of the size against MAX_FILE_SIZE left out
ValidateFileErrorsAnySize(doc) ==
    IF ~doc.exists THEN <<ProcessingError("FILE_NOT_FOUND", doc.name)>>
    ELSE IF doc.stat = "raises" THEN <<ProcessingError("VALIDATION_ERROR", doc.name)>>
    ELSE IF doc.size = 0 THEN <<ProcessingError("EMPTY_FILE", doc.name)>>
    ELSE IF doc.mime = "raises" THEN <<ProcessingError("MIME_TYPE_ERROR", doc.name)>>
    ELSE IF doc.mime \notin ALLOWED_MIME_TYPES
         THEN <<ProcessingError("INVALID_FILE_TYPE", doc.name)>>
    ELSE IF doc.reader = "raises" THEN <<ProcessingError("PDF_STRUCTURE_ERROR", doc.name)>>
    ELSE IF Len(doc.pages) = 0
         THEN <<ProcessingError("INVALID_PDF_STRUCTURE", doc.name)>>
    ELSE <<>>

\* QuestionProcessor.validate_file: the errors it appends; the file is accepted
\* when there are none.  doc describes the file on disk.
ValidateFileErrors(doc) ==
    IF ~doc.exists THEN <<ProcessingError("FILE_NOT_FOUND", doc.name)>>
    ELSE IF doc.stat = "raises" THEN <<ProcessingError("VALIDATION_ERROR", doc.name)>>
    ELSE IF doc.size = 0 THEN <<ProcessingError("EMPTY_FILE", doc.name)>>
    ELSE IF doc.size > MAX_FILE_SIZE THEN <<ProcessingError("FILE_TOO_LARGE", doc.name)>>
    ELSE IF doc.mime = "raises" THEN <<ProcessingError("MIME_TYPE_ERROR", doc.name)>>
    ELSE IF doc.mime \notin ALLOWED_MIME_TYPES
         THEN <<ProcessingError("INVALID_FILE_TYPE", doc.name)>>
    ELSE IF doc.reader = "raises" THEN <<ProcessingError("PDF_STRUCTURE_ERROR", doc.name)>>
    ELSE IF Len(doc.pages) = 0
         THEN <<ProcessingError("INVALID_PDF_STRUCTURE", doc.name)>>
    ELSE <<>>

ValidateFile(doc) == Len(ValidateFileErrors(doc)) = 0

\* the loop over reader.pages with no error appended for a page that raises
ExtractPageSilent(st, page, file_name) ==
    IF page.raises \/ Len(page.text) = 0 THEN st
    ELSE IF Len(CleanText(page.text)) > 0
         THEN [st EXCEPT !.text = Append(@, CleanText(page.text))]
    ELSE st

\* the loop over reader.pages of extract_text: st.text is the list `text`,
\* st.errors what was appended to self.errors
ExtractPage(st, page, file_name) ==
    IF page.raises
    THEN [st EXCEPT !.errors = Append(@, ProcessingError("PAGE_EXTRACTION_ERROR", file_name))]
    ELSE IF Len(page.text) = 0 THEN st
    ELSE IF Len(CleanText(page.text)) > 0
         THEN [st EXCEPT !.text = Append(@, CleanText(page.text))]
    ELSE st

RECURSIVE ExtractPages(_, _, _, _)
ExtractPages(st, pages, i, file_name) ==
    IF i > Len(pages) THEN st
    ELSE ExtractPages(ExtractPage(st, pages[i], file_name), pages, i + 1, file_name)

\* QuestionProcessor.extract_text: ok is FALSE for None.  open() raises for a
\* file that does not exist, PdfReader raises PdfReadError for doc.reader =
\* "raises"
ExtractText(doc) ==
    IF ~doc.exists
    THEN [ok |-> FALSE, text |-> <<>>,
          errors |-> <<ProcessingError("TEXT_EXTRACTION_ERROR", doc.name)>>]
    ELSE IF doc.reader = "raises"
    THEN [ok |-> FALSE, text |-> <<>>, errors |-> <<ProcessingError("PDF_READ_ERROR", doc.name)>>]
    ELSE IF Len(doc.pages) = 0
    THEN [ok |-> FALSE, text |-> <<>>, errors |-> <<ProcessingError("EMPTY_PDF", doc.name)>>]
    ELSE LET st == ExtractPages([text |-> <<>>, errors |-> <<>>], doc.pages, 1, doc.name)
         IN  IF Len(st.text) = 0
             THEN [ok |-> FALSE, text |-> <<>>,
                   errors |-> Append(st.errors, ProcessingError("NO_TEXT_CONTENT", doc.name))]
             ELSE [ok |-> TRUE, text |-> Join(st.text, <<"\n">>), errors |-> st.errors]

\* one iteration of the loop over the sections in process_pdf.  When
\* _extract_answer_options returns a set of options, line 774 reads the name
\* correct_answer_letter, which is bound nowhere: the NameError is caught by
\* the except of line 791.
ProcessSection(st, section, context, file_name) ==
    IF ExtractAnswerOptions(section[2]).found
    THEN [st EXCEPT !.errors = Append(@, ProcessingError("QUESTION_CREATION_ERROR", file_name))]
    ELSE With(DetectCategory(section[1], context), LAMBDA category :
            [st EXCEPT !.questions = Append(@,
                MakeQuestion(section[1], section[2],
                             GenerateContextAwareWrongAnswers(section[2], category),
                             category, file_name))])

RECURSIVE ProcessSections(_, _, _, _, _)
ProcessSections(st, sections, i, context, file_name) ==
    IF i > Len(sections) THEN st
    ELSE With(ProcessSection(st, sections[i], context, file_name), LAMBDA next :
            ProcessSections(next, sections, i + 1, context, file_name))

\* QuestionProcessor.__init__: the parsing state of a new processor
NewProcessor == [errors |-> <<>>, current_category |-> <<>>]

\* the parsing state is left as the last call left it
KeepProcessor(self) == self

\* process_pdf on entry: self.errors = [] and self.current_category = None
ResetProcessor(self) == [self EXCEPT !.errors = <<>>, !.current_category = <<>>]

\* QuestionProcessor.process_pdf on a processor whose parsing state is self
\* (what earlier calls left in self.errors and self.current_category): the
\* (questions, errors) it returns, its local `sections` and the value it
\* leaves in self.current_category.
ProcessPdfOn(self, doc) ==
    With(ResetProcessor(self), LAMBDA fresh :
        IF ~ValidateFile(doc)
        THEN [questions |-> <<>>, errors |-> fresh.errors \o ValidateFileErrors(doc),
              sections |-> <<>>, current_category |-> fresh.current_category]
        ELSE With(ExtractText(doc), LAMBDA ex :
                IF ~ex.ok \/ Len(ex.text) = 0
                THEN [questions |-> <<>>, errors |-> fresh.errors \o ex.errors,
                      sections |-> <<>>, current_category |-> fresh.current_category]
                ELSE With(ExtractQuestionSections(ex.text, fresh.current_category), LAMBDA sec :
                        With(ProcessSections([questions |-> <<>>,
                                              errors |-> fresh.errors \o ex.errors],
                                             sec.sections, 1, sec.current_category, doc.name),
                             LAMBDA st :
                                [questions |-> st.questions, errors |-> st.errors,
                                 sections |-> sec.sections,
                                 current_category |-> sec.current_category]))))

\* process_pdf on the processor a QuestionPoolManager has just made
ProcessPdf(doc) == ProcessPdfOn(NewProcessor, doc)

\* the validation of save_questions: the questions written to the JSON file
\* (source_file is the name of the file the question was read from, which is
\* never blank)
IsValidForSave(q) ==
    /\ Len(Strip(q.question_text)) > 0
    /\ Len(Strip(q.correct_answer)) > 0
    /\ Len(q.wrong_answers) = 3
    /\ \A k \in 1..Len(q.wrong_answers) : Len(Strip(q.wrong_answers[k])) > 0
    /\ q.category \in Range(CategoryNames)

\* QuestionProcessor.save_questions: written is FALSE for None (nothing to
\* save, or the write raised); file is the JSON document
SaveQuestions(questions, writeFails) ==
    LET valid == SelectSeq(questions, IsValidForSave)
    IN  IF Len(questions) = 0 \/ Len(valid) = 0 \/ writeFails
        THEN [written |-> FALSE, file |-> <<>>]
        ELSE [written |-> TRUE,
              file |-> [total_questions |-> Len(valid),
                        source_file |-> valid[1].source_file,
                        questions |-> valid]]

\* json.dump(..., ensure_ascii=False) of one str without the escapes: the
\* characters between two quotes
JsonDumpStringRaw(s) == <<"\"">> \o s \o <<"\"">>

\* json.dump(..., ensure_ascii=False) of one str: the string literal written
\* to the file
JsonDumpString(s) ==
    <<"\"">>
    \o Flatten([i \in 1..Len(s) |->
                    IF s[i] = "\"" THEN <<"\\", "\"">>
                    ELSE IF s[i] = "\\" THEN <<"\\", "\\">>
                    ELSE IF s[i] = "\n" THEN <<"\\", "n">>
                    ELSE IF s[i] = "\r" THEN <<"\\", "r">>
                    ELSE IF s[i] = "\t" THEN <<"\\", "t">>
                    ELSE <<s[i]>>], 1, Len(s))
    \o <<"\"">>

\* json.load of one string literal: the characters from position i up to the
\* closing quote
RECURSIVE JsonLoadFrom(_, _)
JsonLoadFrom(lit, i) ==
    IF i >= Len(lit) THEN <<>>
    ELSE IF lit[i] = "\\" /\ i + 1 < Len(lit)
         THEN <<IF lit[i + 1] = "n" THEN "\n"
                ELSE IF lit[i + 1] = "r" THEN "\r"
                ELSE IF lit[i + 1] = "t" THEN "\t"
                ELSE lit[i + 1]>> \o JsonLoadFrom(lit, i + 2)
    ELSE <<lit[i]>> \o JsonLoadFrom(lit, i + 1)

JsonLoadString(lit) == JsonLoadFrom(lit, 2)

\* the text of the file save_questions writes: Question.to_dict of every
\* question, the strings of the document as string literals
DumpFile(file) ==
    LET to_dict(q) ==
            [question_text |-> JsonDumpString(q.question_text),
             correct_answer |-> JsonDumpString(q.correct_answer),
             wrong_answers |-> [k \in 1..Len(q.wrong_answers) |->
                                    JsonDumpString(q.wrong_answers[k])],
             category |-> JsonDumpString(q.category),
             source_file |-> JsonDumpString(q.source_file),
             content_hash |-> JsonDumpString(q.content_hash)]
    IN  [total_questions |-> file.total_questions,
         source_file |-> JsonDumpString(file.source_file),
         questions |-> [i \in 1..Len(file.questions) |-> to_dict(file.questions[i])]]

\* json.load of one entry of "questions", and Question(...) of its fields
\* question_text, correct_answer, wrong_answers, category and source_file
LoadQuestion(entry) ==
    MakeQuestion(JsonLoadString(entry.question_text),
                 JsonLoadString(entry.correct_answer),
                 [k \in 1..Len(entry.wrong_answers) |-> JsonLoadString(entry.wrong_answers[k])],
                 JsonLoadString(entry.category),
                 JsonLoadString(entry.source_file))

(***************************************************************************)
(* _generate_wrong_answers and _generate_fallback_wrong_answers.  A call   *)
(* that ends in an exception gives raised = TRUE.                          *)
(***************************************************************************)
\* str.capitalize()
Capitalize(s) ==
    LET UpperChar(c) ==
            IF c \in Range(LowerChars) THEN UpperChars[CHOOSE i \in 1..26 : LowerChars[i] = c]
            ELSE c
    IN  IF Len(s) = 0 THEN s ELSE <<UpperChar(s[1])>> \o Lower(SubSeq(s, 2, Len(s)))

\* str.replace(old, new, 1)
ReplaceFirst(s, old, new) ==
    LET hits == {j \in 1..Len(s) : StartsWithAt(s, j, old)}
    IN  IF hits = {} THEN s
        ELSE LET j == CHOOSE k \in hits : \A m \in hits : k <= m
             IN  SubSeq(s, 1, j - 1) \o new \o SubSeq(s, j + Len(old), Len(s))

\* int(num) of a digit string raises ValueError when the string is longer than
\* the interpreter's limit for the conversion (sys.get_int_max_str_digits())
IntRaises(num) == Len(num) > 4300

\* the loop over numbers: modified.replace(num, str(int(num) + 5), 1)
RECURSIVE BumpNumbers(_, _, _)
BumpNumbers(modified, numbers, i) ==
    IF i > Len(numbers) THEN modified
    ELSE BumpNumbers(ReplaceFirst(modified, numbers[i], IntToStr(StrToInt(numbers[i]) + 5)),
                     numbers, i + 1)

\* while len(wrong_answers) < 3: one pass of the for loop over generic
RECURSIVE FillGeneric(_, _)
FillGeneric(wrong_answers, generic) ==
    LET Add(a, g) == IF Len(a) >= 3 \/ g \in Range(a) THEN a ELSE Append(a, g)
    IN  IF Len(wrong_answers) >= 3 THEN wrong_answers
        ELSE FillGeneric(Add(Add(Add(wrong_answers, generic[1]), generic[2]), generic[3]),
                         generic)

\* QuestionProcessor._generate_fallback_wrong_answers
GenerateFallbackWrongAnswers(correct_answer) ==
    LET words == SplitWs(correct_answer)
        numbers == FindNumbers(correct_answer)
    IN  IF Len(words) < 3 THEN [raised |-> FALSE, answers |-> ShortAnswerFallbacks]
        ELSE IF \E i \in 1..Len(numbers) : IntRaises(numbers[i])
        THEN [raised |-> TRUE, answers |-> <<>>]
        ELSE
        LET numeric == IF Len(numbers) > 0 THEN <<BumpNumbers(correct_answer, numbers, 1)>>
                       ELSE <<>>
            found == SelectSeq(LegalTerms, LAMBDA p : Contains(Lower(correct_answer), p[1]))
            room == 3 - Len(numeric)
            terms == [k \in 1..(IF Len(found) < room THEN Len(found) ELSE room) |->
                        Replace(correct_answer, found[k][1], found[k][2])]
            changed == numeric \o terms
            hits == {k \in 1..Len(Negations) : Contains(correct_answer, Negations[k][1])}
            negation == IF hits = {} THEN correct_answer
                        ELSE LET k == CHOOSE h \in hits : \A m \in hits : h <= m
                             IN  Replace(correct_answer, Negations[k][1], Negations[k][2])
            negated == IF Len(changed) < 3 /\ negation /= correct_answer
                       THEN Append(changed, negation) ELSE changed
            generic == << GenericAnswers[1]
                            \o Join(SubSeq(words, Len(words) - 2, Len(words)), <<" ">>),
                          GenericAnswers[2], GenericAnswers[3] >>
        IN  [raised |-> FALSE, answers |-> SubSeq(FillGeneric(negated, generic), 1, 3)]

\* QuestionProcessor._generate_wrong_answers; current_category is
\* self.current_category (<<>> for None), api what generate_questions does
GenerateWrongAnswers(correct_answer, current_category, api) ==
    LET named == {c \in 1..Len(CategoryNames) : CategoryNames[c] = current_category}
        c == IF named = {} THEN 1 ELSE CHOOSE d \in named : TRUE
        hits == {k \in 1..Len(ContextOpposites[c]) :
                    Contains(Lower(correct_answer), Lower(ContextOpposites[c][k][1]))}
        opposite ==
            IF hits = {} THEN <<>>
            ELSE LET k == CHOOSE h \in hits : \A m \in hits : h <= m
                 IN  <<Capitalize(Replace(Lower(correct_answer),
                                          Lower(ContextOpposites[c][k][1]),
                                          Lower(ContextOpposites[c][k][2])))>>
        first == SplitWs(correct_answer)
        varied ==
            opposite \o
            [i \in 1..(3 - Len(opposite)) |->
                ContextVariations[c][i] \o <<":", " ">>
                \o Join(SubSeq(first, 1, IF Len(first) < 3 THEN Len(first) ELSE 3), <<" ">>)
                \o <<".", ".", ".">>]
        api_answers == IF api = "answers" THEN ApiWrongAnswers ELSE <<>>
        asked == IF Len(varied) < 3
                 THEN varied \o SubSeq(api_answers, 1,
                                       IF Len(api_answers) < 3 - Len(varied)
                                       THEN Len(api_answers) ELSE 3 - Len(varied))
                 ELSE varied
    IN  IF Len(asked) < 3
        THEN LET fallback == GenerateFallbackWrongAnswers(correct_answer)
             IN  IF fallback.raised THEN fallback
                 ELSE [raised |-> FALSE,
                       answers |-> asked \o [i \in 1..(3 - Len(asked)) |-> fallback.answers[1]]]
        ELSE [raised |-> FALSE, answers |-> SubSeq(asked, 1, 3)]

\* QuestionProcessor._generate_context_aware_wrong_answers with its except
\* branch: int(numbers[0]) raises, _generate_wrong_answers is returned
GenerateContextAwareWrongAnswersOn(current_category, api, correct_answer, category) ==
    IF /\ ~\E w \in Range(DefinitionWords) : Contains(Lower(correct_answer), w)
       /\ Len(FindNumbers(correct_answer)) > 0
       /\ IntRaises(FindNumbers(correct_answer)[1])
    THEN GenerateWrongAnswers(correct_answer, current_category, api)
    ELSE [raised |-> FALSE, answers |-> GenerateContextAwareWrongAnswers(correct_answer, category)]

(***************************************************************************)
(* String constants of utils/perplexity.py.                                *)
(***************************************************************************)
COURT_REPORTER_TOPICS ==
    <<<<"L","e","g","a","l"," ","&"," ","J","u","d","i","c","i","a","l"," ","T","e","r","m","i","n",
    "o","l","o","g","y">>,<<"P","r","o","f","e","s","s","i","o","n","a","l"," ","S","t","a","n","d",
    "a","r","d","s"," ","&"," ","E","t","h","i","c","s">>,<<"G","r","a","m","m","a","r"," ","&"," ",
    "V","o","c","a","b","u","l","a","r","y">>,<<"T","r","a","n","s","c","r","i","p","t","i","o","n",
    " ","S","t","a","n","d","a","r","d","s">>,<<"C","o","u","r","t"," ","P","r","o","c","e","d","u",
    "r","e","s">>,<<"D","e","p","o","s","i","t","i","o","n"," ","P","r","o","t","o","c","o","l">>,
    <<"R","e","p","o","r","t","i","n","g"," ","E","q","u","i","p","m","e","n","t">>,<<"C","e","r",
    "t","i","f","i","c","a","t","i","o","n"," ","R","e","q","u","i","r","e","m","e","n","t","s">>>>

\* 'What is the meaning of "voir dire" in legal proceedings?'
FallbackText1 ==
    <<"W","h","a","t"," ","i","s"," ","t","h","e"," ","m","e","a","n","i","n","g"," ","o","f"," ",
    "\"","v","o","i","r"," ","d","i","r","e","\""," ","i","n"," ","l","e","g","a","l"," ","p","r",
    "o","c","e","e","d","i","n","g","s","?">>

\* 'It is a preliminary examination of a witness or juror to determine their qualifications.'
FallbackCorrect1 ==
    <<"I","t"," ","i","s"," ","a"," ","p","r","e","l","i","m","i","n","a","r","y"," ","e","x","a",
    "m","i","n","a","t","i","o","n"," ","o","f"," ","a"," ","w","i","t","n","e","s","s"," ","o","r",
    " ","j","u","r","o","r"," ","t","o"," ","d","e","t","e","r","m","i","n","e"," ","t","h","e","i",
    "r"," ","q","u","a","l","i","f","i","c","a","t","i","o","n","s",".">>

FallbackWrong1 ==
    <<<<"I","t"," ","i","s"," ","a"," ","f","i","n","a","l"," ","a","r","g","u","m","e","n","t"," ",
    "p","r","e","s","e","n","t","e","d"," ","t","o"," ","t","h","e"," ","j","u","r","y",".">>,<<"I",
    "t"," ","i","s"," ","a"," ","t","y","p","e"," ","o","f"," ","l","e","g","a","l"," ","d","o","c",
    "u","m","e","n","t"," ","f","i","l","e","d"," ","w","i","t","h"," ","t","h","e"," ","c","o","u",
    "r","t",".">>,<<"I","t"," ","i","s"," ","a"," ","m","e","e","t","i","n","g"," ","b","e","t","w",
    "e","e","n"," ","a","t","t","o","r","n","e","y","s"," ","a","n","d"," ","t","h","e"," ","j","u",
    "d","g","e",".">>>>

\* 'What is the primary duty of a court reporter regarding confidentiality?'
FallbackText2 ==
    <<"W","h","a","t"," ","i","s"," ","t","h","e"," ","p","r","i","m","a","r","y"," ","d","u","t",
    "y"," ","o","f"," ","a"," ","c","o","u","r","t"," ","r","e","p","o","r","t","e","r"," ","r","e",
    "g","a","r","d","i","n","g"," ","c","o","n","f","i","d","e","n","t","i","a","l","i","t","y",
    "?">>

\* 'To maintain strict confidentiality of all information obtained during proceedings.'
FallbackCorrect2 ==
    <<"T","o"," ","m","a","i","n","t","a","i","n"," ","s","t","r","i","c","t"," ","c","o","n","f",
    "i","d","e","n","t","i","a","l","i","t","y"," ","o","f"," ","a","l","l"," ","i","n","f","o","r",
    "m","a","t","i","o","n"," ","o","b","t","a","i","n","e","d"," ","d","u","r","i","n","g"," ","p",
    "r","o","c","e","e","d","i","n","g","s",".">>

FallbackWrong2 ==
    <<<<"T","o"," ","s","h","a","r","e"," ","i","n","f","o","r","m","a","t","i","o","n"," ","o","n",
    "l","y"," ","w","i","t","h"," ","o","t","h","e","r"," ","c","o","u","r","t"," ","r","e","p","o",
    "r","t","e","r","s",".">>,<<"T","o"," ","d","i","s","c","u","s","s"," ","c","a","s","e","s"," ",
    "o","n","l","y"," ","a","f","t","e","r"," ","t","h","e","y"," ","a","r","e"," ","c","l","o","s",
    "e","d",".">>,<<"T","o"," ","m","a","i","n","t","a","i","n"," ","r","e","c","o","r","d","s"," ",
    "f","o","r"," ","p","e","r","s","o","n","a","l"," ","r","e","f","e","r","e","n","c","e",".">>>>

(***************************************************************************)
(* The documents of the model: page texts as PyPDF2 would return them.     *)
(***************************************************************************)
\* 'What is a deposition in a court case?\nIt is sworn testimony'
PageDefinition ==
    <<"W","h","a","t"," ","i","s"," ","a"," ","d","e","p","o","s","i","t","i","o","n"," ","i","n",
    " ","a"," ","c","o","u","r","t"," ","c","a","s","e","?","\n","I","t"," ","i","s"," ","s","w",
    "o","r","n"," ","t","e","s","t","i","m","o","n","y">>

\* 'When is the transcription record due?\nWithin 5 days\nHow long does the court wait?\nIt waits 0 days'
PageNumeric ==
    <<"W","h","e","n"," ","i","s"," ","t","h","e"," ","t","r","a","n","s","c","r","i","p","t","i",
    "o","n"," ","r","e","c","o","r","d"," ","d","u","e","?","\n","W","i","t","h","i","n"," ","5",
    " ","d","a","y","s","\n","H","o","w"," ","l","o","n","g"," ","d","o","e","s"," ","t","h","e",
    " ","c","o","u","r","t"," ","w","a","i","t","?","\n","I","t"," ","w","a","i","t","s"," ","0",
    " ","d","a","y","s">>

\* 'What must a reporter do upon discovering a conflict?\nA. Notify all parties within 3 days.\nB. Ignore it.\nC. Resign immediately.\nD. Wait for inquiry.\nCorrect: A'
PageLettered ==
    <<"W","h","a","t"," ","m","u","s","t"," ","a"," ","r","e","p","o","r","t","e","r"," ","d","o",
    " ","u","p","o","n"," ","d","i","s","c","o","v","e","r","i","n","g"," ","a"," ","c","o","n","f",
    "l","i","c","t","?","\n","A","."," ","N","o","t","i","f","y"," ","a","l","l"," ","p","a","r",
    "t","i","e","s"," ","w","i","t","h","i","n"," ","3"," ","d","a","y","s",".","\n","B","."," ",
    "I","g","n","o","r","e"," ","i","t",".","\n","C","."," ","R","e","s","i","g","n"," ","i","m",
    "m","e","d","i","a","t","e","l","y",".","\n","D","."," ","W","a","i","t"," ","f","o","r"," ",
    "i","n","q","u","i","r","y",".","\n","C","o","r","r","e","c","t",":"," ","A">>

\* 'What is a deposition in a court case?\nIt is sworn testimony\nWhat is a deposition in a court case?\nIt is sworn testimony'
PageRepeated ==
    <<"W","h","a","t"," ","i","s"," ","a"," ","d","e","p","o","s","i","t","i","o","n"," ","i","n",
    " ","a"," ","c","o","u","r","t"," ","c","a","s","e","?","\n","I","t"," ","i","s"," ","s","w",
    "o","r","n"," ","t","e","s","t","i","m","o","n","y","\n","W","h","a","t"," ","i","s"," ","a",
    " ","d","e","p","o","s","i","t","i","o","n"," ","i","n"," ","a"," ","c","o","u","r","t"," ","c",
    "a","s","e","?","\n","I","t"," ","i","s"," ","s","w","o","r","n"," ","t","e","s","t","i","m",
    "o","n","y">>

\* 'Which party does pay the court fees?\nA. The plaintiff pays.\nB. The defendant pays.\nC. Nobody pays them.\nD. The court pays.'
PageUnmarked ==
    <<"W","h","i","c","h"," ","p","a","r","t","y"," ","d","o","e","s"," ","p","a","y"," ","t","h",
    "e"," ","c","o","u","r","t"," ","f","e","e","s","?","\n","A","."," ","T","h","e"," ","p","l",
    "a","i","n","t","i","f","f"," ","p","a","y","s",".","\n","B","."," ","T","h","e"," ","d","e",
    "f","e","n","d","a","n","t"," ","p","a","y","s",".","\n","C","."," ","N","o","b","o","d","y",
    " ","p","a","y","s"," ","t","h","e","m",".","\n","D","."," ","T","h","e"," ","c","o","u","r",
    "t"," ","p","a","y","s",".">>

(***************************************************************************)
(* Documents for calls of process_pdf on one processor, one after another. *)
(***************************************************************************)
\* 'Grammar & Vocabulary Questions:'
PageHeader ==
    <<"G","r","a","m","m","a","r"," ","&"," ","V","o","c","a","b","u","l","a","r","y"," ","Q","u",
    "e","s","t","i","o","n","s",":">>

\* 'Grammar & Vocabulary Questions:\n\nWhich court does keep the record?\nThe trial court\n\nTranscription Standards Questions:\n\nWhat is a misplaced modifier in writing?\nIt is a grammar fault'
PageSections ==
    <<"G","r","a","m","m","a","r"," ","&"," ","V","o","c","a","b","u","l","a","r","y"," ","Q","u",
    "e","s","t","i","o","n","s",":","\n","\n","W","h","i","c","h"," ","c","o","u","r","t"," ","d",
    "o","e","s"," ","k","e","e","p"," ","t","h","e"," ","r","e","c","o","r","d","?","\n","T","h",
    "e"," ","t","r","i","a","l"," ","c","o","u","r","t","\n","\n","T","r","a","n","s","c","r","i",
    "p","t","i","o","n"," ","S","t","a","n","d","a","r","d","s"," ","Q","u","e","s","t","i","o","n",
    "s",":","\n","\n","W","h","a","t"," ","i","s"," ","a"," ","m","i","s","p","l","a","c","e","d",
    " ","m","o","d","i","f","i","e","r"," ","i","n"," ","w","r","i","t","i","n","g","?","\n","I",
    "t"," ","i","s"," ","a"," ","g","r","a","m","m","a","r"," ","f","a","u","l","t">>

\* 'What is the record of the reporter called?\nTranscript'
PageOneWord ==
    <<"W","h","a","t"," ","i","s"," ","t","h","e"," ","r","e","c","o","r","d"," ","o","f"," ","t",
    "h","e"," ","r","e","p","o","r","t","e","r"," ","c","a","l","l","e","d","?","\n","T","r","a",
    "n","s","c","r","i","p","t">>

\* 'Who pays?\nThe court\nWhat is a deposition in a court case?\nIt is sworn testimony'
PageRejected ==
    <<"W","h","o"," ","p","a","y","s","?","\n","T","h","e"," ","c","o","u","r","t","\n","W","h","a",
    "t"," ","i","s"," ","a"," ","d","e","p","o","s","i","t","i","o","n"," ","i","n"," ","a"," ","c",
    "o","u","r","t"," ","c","a","s","e","?","\n","I","t"," ","i","s"," ","s","w","o","r","n"," ",
    "t","e","s","t","i","m","o","n","y">>

\* 'Who pays?'
RejectedLine ==
    <<"W","h","o"," ","p","a","y","s","?">>

\* 'Which court does keep the record?'
SectionsFirstQuestion ==
    <<"W","h","i","c","h"," ","c","o","u","r","t"," ","d","o","e","s"," ","k","e","e","p"," ","t",
    "h","e"," ","r","e","c","o","r","d","?">>

\* 'What is a misplaced modifier in writing?'
SectionsSecondQuestion ==
    <<"W","h","a","t"," ","i","s"," ","a"," ","m","i","s","p","l","a","c","e","d"," ","m","o","d",
    "i","f","i","e","r"," ","i","n"," ","w","r","i","t","i","n","g","?">>

(***************************************************************************)
(* The questions the external service writes in the modelled behaviours:   *)
(* 'What is rule <k> about?' answered 'It is rule <k>'.                    *)
(***************************************************************************)
\* 'What is rule '
ServiceTextHead ==
    <<"W","h","a","t"," ","i","s"," ","r","u","l","e"," ">>

\* ' about?'
ServiceTextTail ==
    <<" ","a","b","o","u","t","?">>

\* 'It is rule '
ServiceCorrectHead ==
    <<"I","t"," ","i","s"," ","r","u","l","e"," ">>

ServiceWrong ==
    <<<<"H","e"," ","w","a","s"," ","o","u","t">>,<<"W","e"," ","c","a","n"," ","g","o">>,<<"Y","o",
    "u"," ","h","a","v","e"," ","o","n","e">>>>

(***************************************************************************)
(* Bounds of the model.                                                    *)
(***************************************************************************)
\* PDF files in the input directory
MaxDocs == 3

\* environment faults (I/O, database) injected in one behaviour
MaxFaults == 1

\* questions a generator response may hold beyond the number asked for
MaxExtra == 1

\* questions of one document (the iterations a query fault can hit)
MaxDocQuestions == 2

\* invocations of the batch entry point in one behaviour
MaxRuns == 2

(***************************************************************************)
(* The files of the input directory.  A file is described by what the      *)
(* checks of validate_file see and by its pages; a page either raises in   *)
(* extract_text() or yields its text.                                      *)
(***************************************************************************)
Page(text) == [raises |-> FALSE, text |-> text]

BrokenPage == [raises |-> TRUE, text |-> <<>>]

PdfFile(name, pages) ==
    [name |-> name, exists |-> TRUE, stat |-> "ok", size |-> 1024, mime |-> "application/pdf",
     reader |-> "ok", pages |-> pages]

\* the files a directory listing is drawn from
DocPool ==
    << PdfFile("definition.pdf", <<Page(PageDefinition)>>),
       PdfFile("corrupt.pdf", <<>>),
       PdfFile("numeric.pdf", <<Page(PageNumeric)>>),
       PdfFile("lettered.pdf", <<Page(PageLettered)>>),
       PdfFile("repeated.pdf", <<Page(PageRepeated)>>),
       PdfFile("unmarked.pdf", <<BrokenPage, Page(PageUnmarked)>>),
       PdfFile("oneword.pdf", <<Page(PageOneWord)>>) >>

DocKinds == 1..Len(DocPool)

\* list(pdf_dir.glob('*.pdf')): up to MaxDocs files, no file twice, any order
Listings ==
    UNION {{l \in [1..n -> DocKinds] : \A i, j \in 1..n : i /= j => l[i] /= l[j]}
           : n \in 0..MaxDocs}

(***************************************************************************)
(* utils/perplexity.py.  A topic is its index in COURT_REPORTER_TOPICS,    *)
(* which is also the order in which ensure_categories names the            *)
(* categories; the category table is keyed by it.                          *)
(***************************************************************************)
Topics == 1..Len(COURT_REPORTER_TOPICS)

\* the topic of a category name (0 when it is none)
TopicOf(name) ==
    IF \E t \in Topics : COURT_REPORTER_TOPICS[t] = name
    THEN CHOOSE t \in Topics : COURT_REPORTER_TOPICS[t] = name
    ELSE 0

Min(a, b) == IF a <= b THEN a ELSE b

GeneratedDict(question_text, correct_answer, wrong_answers, topic) ==
    [question_text |-> question_text, correct_answer |-> correct_answer,
     wrong_answers |-> wrong_answers, category |-> topic]

\* FALLBACK_QUESTIONS
FallbackQuestions(topic) ==
    IF topic = 1
    THEN <<GeneratedDict(FallbackText1, FallbackCorrect1, FallbackWrong1, 1)>>
    ELSE IF topic = 2
    THEN <<GeneratedDict(FallbackText2, FallbackCorrect2, FallbackWrong2, 2)>>
    ELSE <<>>

\* get_fallback_questions: questions[:count]
GetFallbackQuestions(topic, count) ==
    SubSeq(FallbackQuestions(topic), 1, Min(count, Len(FallbackQuestions(topic))))

\* the k-th question the external service can write: a block that the parsing
\* loop of generate_questions accepts (four options, a Correct: line) and that
\* passes validate_generated_question
ServiceQuestion(k, topic) ==
    GeneratedDict(ServiceTextHead \o IntToStr(k) \o ServiceTextTail,
                  ServiceCorrectHead \o IntToStr(k),
                  ServiceWrong, topic)

\* generate_questions(topic, count).  api is what the service call came to:
\*   "raise"    the exception leaves the function;
\*   "fallback" no API key, an empty content, an error that is not raised
\*              again, or no valid question parsed: get_fallback_questions;
\*   "content"  api.n >= 1 valid questions parsed, api.first the first of
\*              them: all are returned, whatever count is.
GenerateQuestions(topic, count, api) ==
    IF api.kind = "raise" THEN [raised |-> TRUE, questions |-> <<>>]
    ELSE IF api.kind = "fallback"
    THEN [raised |-> FALSE, questions |-> GetFallbackQuestions(topic, count)]
    ELSE [raised |-> FALSE,
          questions |-> [i \in 1..api.n |-> ServiceQuestion(api.first + i - 1, topic)]]


(***************************************************************************)
(* utils/perplexity.py: generate_questions under its tenacity decorator.   *)
(* A response is what requests.post came to in one attempt: an HTTP answer *)
(* with a status code and `valid` well-formed questions in its content, an *)
(* answer whose body is no JSON, or a requests exception.                  *)
(***************************************************************************)
StopAfterAttempt == 5

Response(kind, status_code, valid) ==
    [kind |-> kind, status_code |-> status_code, valid |-> valid]

PerplexityAPIError(status_code) == [type |-> "PerplexityAPIError", status_code |-> status_code]

RequestException(type) == [type |-> type, status_code |-> 0]

\* should_retry_error(exception)
ShouldRetryError(exception) ==
    IF exception.type = "PerplexityAPIError"
    THEN exception.status_code \in {429, 500, 502, 503, 504}
    ELSE exception.type \in {"ConnectionError", "Timeout"}

\* the body of generate_questions for one response (the API key is set)
GenerateQuestionsBody(topic, count, response) ==
    LET fallback == [raised |-> FALSE, exception |-> RequestException("none"),
                     questions |-> GetFallbackQuestions(topic, count)]
        raise(e) == [raised |-> TRUE, exception |-> e, questions |-> <<>>]
        api_error(e) == IF ShouldRetryError(e) THEN raise(e) ELSE fallback
    IN  IF response.kind \in {"ConnectionError", "Timeout"}
        THEN raise(RequestException(response.kind))
        ELSE IF response.kind = "bad_json"
        THEN api_error(PerplexityAPIError(response.status_code))
        ELSE IF response.status_code # 200
        THEN api_error(PerplexityAPIError(response.status_code))
        ELSE IF response.valid = 0
        THEN fallback
        ELSE [raised |-> FALSE, exception |-> RequestException("none"),
              questions |-> [i \in 1..response.valid |-> ServiceQuestion(i, topic)]]

\* what the decorator was given as retry_if_exception_type's exception_types:
\* the function should_retry_error, which is no class
RetryExceptionTypes == [is_class |-> FALSE, name |-> "should_retry_error"]

\* isinstance(exception, classinfo): TypeError unless classinfo is a class
IsInstance(exception, classinfo) ==
    IF ~classinfo.is_class
    THEN [raised |-> TRUE, value |-> FALSE]
    ELSE [raised |-> FALSE, value |-> exception.type = classinfo.name]

\* tenacity's retry_if_exception_type(exception_types) on a failed attempt
RetryIfExceptionType(exception) == IsInstance(exception, RetryExceptionTypes)

\* the wrapped generate_questions from attempt attempt_number on: the body
\* runs; a returned value is the result; after an exception the retry
\* condition is evaluated (an exception of the condition leaves the call),
\* then stop_after_attempt, and reraise=True raises the last exception
RECURSIVE Retrying(_, _, _, _)
Retrying(topic, count, responses, attempt_number) ==
    LET outcome == GenerateQuestionsBody(topic, count, responses[attempt_number])
        retry == RetryIfExceptionType(outcome.exception)
        ended(raised, e) == [raised |-> raised, exception |-> e,
                             questions |-> outcome.questions, attempts |-> attempt_number]
    IN  IF ~outcome.raised THEN ended(FALSE, outcome.exception)
        ELSE IF retry.raised THEN ended(TRUE, RequestException("TypeError"))
        ELSE IF ~retry.value THEN ended(TRUE, outcome.exception)
        ELSE IF attempt_number >= StopAfterAttempt THEN ended(TRUE, outcome.exception)
        ELSE Retrying(topic, count, responses, attempt_number + 1)

\* generate_questions(topic, count) as callers see it
GenerateQuestionsRetrying(topic, count, responses) == Retrying(topic, count, responses, 1)
(***************************************************************************)
(* process_pdfs.py: QuestionPoolManager over the database.                 *)
(*                                                                         *)
(* A row of the question table keeps, beside its columns, where it came    *)
(* from (origin, run): history the checks read, not the program.           *)
(***************************************************************************)
\* min(20, needed_count): the most one generator request asks for
RequestLimit == 20

\* retries = 3
Retries == 3

\* QuestionPoolManager.__init__(min_threshold=50)
DefaultThreshold == 50

\* a threshold the batches of Retries requests of RequestLimit cannot fill
LargeThreshold == 61

\* the threshold of the behaviours that process documents
SmallThreshold == 2

\* how far below the threshold a category of the pool starts, when it is not empty
NearGap == 2

\* categories below the threshold when a behaviour with no document starts
MaxNeedy == 2

\* categories below the threshold when a behaviour with documents starts
MaxShort == 1

QuestionRow(category_id, question_text, correct_answer, wrong_answers, origin, n) ==
    [category_id |-> category_id, question_text |-> question_text,
     correct_answer |-> correct_answer, wrong_answers |-> wrong_answers,
     origin |-> origin, run |-> n]

\* the i-th question a category held before the first run
SeedRow(topic, i) ==
    QuestionRow(topic, <<"s">> \o IntToStr(topic) \o <<"-">> \o IntToStr(i),
                <<"a">>, <<<<"b">>, <<"c">>, <<"d">>>>, "seed", 0)

\* the question table, by category_id: counts[t] seed rows for topic t
SeedRows(counts) == [t \in Topics |-> [i \in 1..counts[t] |-> SeedRow(t, i)]]

\* Question.query.join(Category).filter(Category.name == category).count()
CountRows(table, topic) == Len(table[topic])

\* no row is ever found
ExistingNowhere(table, pending, question_text, category_id) == FALSE

\* Question.query.filter_by(question_text=..., category_id=...).first() is not
\* None; the query flushes the session first, so it sees the pending rows too
Existing(table, pending, question_text, category_id) ==
    \/ \E i \in 1..Len(table[category_id]) :
          table[category_id][i].question_text = question_text
    \/ \E i \in 1..Len(pending) :
          /\ pending[i].category_id = category_id
          /\ pending[i].question_text = question_text

\* db.session.commit(): the pending rows join the table
Commit(table, pending) ==
    [t \in Topics |-> table[t] \o SelectSeq(pending, LAMBDA r : r.category_id = t)]

\* the request limit, whatever is needed
BatchSizeFull(needed) == RequestLimit

\* batch_size = min(20, needed_count)
BatchSize(needed) == Min(RequestLimit, needed)

\* the strings of the returned error list, by what produced them
ErrorEntry(kind, about) == [kind |-> kind, about |-> about]

\* the errors of process_pdf are dropped
MessagesDropped(errors) == <<>>

\* all_errors.extend([e.message for e in errors])
MessagesOf(errors) ==
    [i \in 1..Len(errors) |-> ErrorEntry(errors[i].error_type, errors[i].file_name)]

\* process_pdf of every file of the pool (it depends on the file alone)
ProcessedPdf == [k \in DocKinds |-> ProcessPdf(DocPool[k])]

\* for the files `kinds` of the pool, what process_pdf returns (p) and whether
\* save_questions, when the write works, returns a path for it
ProcessedWith(p, kinds) ==
    [k \in kinds |->
        [questions |-> p[k].questions,
         errors |-> p[k].errors,
         sections |-> p[k].sections,
         current_category |-> p[k].current_category,
         saved |-> SaveQuestions(p[k].questions, FALSE).written,
         total_questions |-> Len(SelectSeq(p[k].questions, IsValidForSave))]]

\* one iteration of the loop over `questions` in process_pdfs.  st.session are
\* the rows added and not committed, st.failed tells that a database call has
\* raised (no rollback follows, so every later call raises too); failAt is the
\* iteration whose first query raises (0: none).
AddPdfQuestion(st, q, i, failAt, committed, cats, n) ==
    IF st.failed \/ i = failAt
    THEN [st EXCEPT !.failed = TRUE,
                    !.errors = Append(@, ErrorEntry("DB_ADD_ERROR", q.source_file))]
    ELSE IF TopicOf(q.category) \notin cats THEN st
    ELSE IF Existing(committed, st.session, q.question_text, TopicOf(q.category)) THEN st
    ELSE [st EXCEPT !.session = Append(@, QuestionRow(TopicOf(q.category), q.question_text,
                                                      q.correct_answer, q.wrong_answers,
                                                      "pdf", n)),
                    !.added = @ + 1]

RECURSIVE AddPdfQuestions(_, _, _, _, _, _, _)
AddPdfQuestions(st, questions, i, failAt, committed, cats, n) ==
    IF i > Len(questions) THEN st
    ELSE AddPdfQuestions(AddPdfQuestion(st, questions[i], i, failAt, committed, cats, n),
                         questions, i + 1, failAt, committed, cats, n)

\* one iteration of the loop over `questions` in maintain_question_pool
AddGeneratedQuestion(st, q, committed, n) ==
    IF Existing(committed, st.session, q.question_text, q.category)
    THEN st
    ELSE [st EXCEPT !.session = Append(@, QuestionRow(q.category, q.question_text,
                                                      q.correct_answer, q.wrong_answers,
                                                      "generator", n)),
                    !.added = @ + 1]

RECURSIVE AddGeneratedQuestions(_, _, _, _, _)
AddGeneratedQuestions(st, questions, i, committed, n) ==
    IF i > Len(questions) THEN st
    ELSE AddGeneratedQuestions(AddGeneratedQuestion(st, questions[i], committed, n),
                               questions, i + 1, committed, n)

\* no category is found below the threshold
NextNeedyNone(rows, topic, threshold) == 0

\* a category at the threshold is taken as below it
NextNeedyAtThreshold(rows, topic, threshold) ==
    LET needy == {t \in Topics : t >= topic /\ CountRows(rows, t) <= threshold}
    IN  IF needy = {} THEN 0 ELSE CHOOSE t \in needy : \A u \in needy : t <= u

\* the first category from topic on that the loop of maintain_question_pool
\* finds below the threshold (0: none)
NextNeedy(rows, topic, threshold) ==
    LET needy == {t \in Topics : t >= topic /\ CountRows(rows, t) < threshold}
    IN  IF needy = {} THEN 0 ELSE CHOOSE t \in needy : \A u \in needy : t <= u


(***************************************************************************)
(* The state of the web application that routes.submit_test works on: one  *)
(* test of one user, its TestQuestion rows, the UserQuestionPerformance    *)
(* rows of that user and the usage statistics of the questions.            *)
(***************************************************************************)
VARIABLES
    test,                       \* the Test row: completed, score
    test_questions,             \* test.questions: the TestQuestion rows, in order
    user_question_performance,  \* question id -> <<>> or <<the row of the owner>>
    question_table,             \* question id -> correct_answer and statistics
    response,                   \* what the last submit_test request returned
    utcnow                      \* the clock: the number of requests so far

web == <<test, test_questions, user_question_performance, question_table, response, utcnow>>

NoResponse == [status |-> 0, error |-> ""]

\* no test exists
InitNoTest ==
    /\ test = [completed |-> FALSE, score |-> <<>>]
    /\ test_questions = <<>>
    /\ user_question_performance = <<>>
    /\ question_table = <<>>
    /\ response = NoResponse
    /\ utcnow = 0
(***************************************************************************)
(* The state of one deployment: the input directory, the database, and the *)
(* position of a run of the entry point process_pdfs().                    *)
(***************************************************************************)
VARIABLES
    processed,        \* process_pdf and save_questions of the files of pdf_files
    pdf_files,        \* the listing of pdf_files/*.pdf: indices into DocPool
    min_threshold,    \* QuestionPoolManager.min_threshold
    categories,       \* the topics that have a Category row
    db,               \* the committed rows of the question table
    session,          \* rows added to db.session and not committed
    session_failed,   \* a database call of this run has raised
    pc,               \* "idle", "docs" (loop over pdf_files), "backfill", "done"
    doc_index,        \* the next file of pdf_files
    topic_index,      \* maintain_question_pool: the category being filled
    attempt,          \* maintain_question_pool: attempt (from 0)
    needed_count,     \* maintain_question_pool: needed_count
    total_added,      \* process_pdfs: total_added
    all_errors,       \* process_pdfs: all_errors
    total_generated,  \* maintain_question_pool: total_generated
    gen_errors,       \* maintain_question_pool: errors
    result,           \* what process_pdfs() returned
    output_files,     \* the JSON files written by save_questions
    run,              \* the number of this run
    faults_left,      \* environment faults still to come
    gen_next,         \* the service has written questions 1..gen_next-1
    requests,         \* history: the generator requests of this run
    fault_log,        \* history: the faults that happened
    below,            \* history: categories below the threshold when
                      \* maintain_question_pool started
    backups,          \* the copies of PDF files made so far: [dir, file, run]
    categories_before,\* history: the Category rows when process_pdfs() was called
    probe             \* a call of one method on its own: its input and its result

vars ==
    <<processed, pdf_files, min_threshold, categories, db, session, session_failed, pc, doc_index,
      topic_index, attempt, needed_count, total_added, all_errors, total_generated,
      gen_errors, result, output_files, run, faults_left, gen_next, requests, fault_log,
      below, backups, categories_before, probe, web>>

\* no method is called on its own
NoProbe == [op |-> "none"]

\* an entry of fault_log: what the environment did, where, and to what
Fault(phase, kind, about) == [phase |-> phase, kind |-> kind, about |-> about]

NoResult == [returned |-> FALSE, count |-> 0, errors |-> <<>>]

Returned(count, errors) == [returned |-> TRUE, count |-> count, errors |-> errors]

\* the pools a behaviour starts from: needyMin to needyMax categories below the
\* threshold (empty, or NearGap short of it), the others at the threshold
PoolCounts(threshold, needyMin, needyMax) ==
    {c \in [Topics -> {0, threshold - NearGap, threshold}] :
        /\ Cardinality({t \in Topics : c[t] < threshold}) \in needyMin..needyMax
        /\ \A t \in Topics : c[t] >= 0}

InitWith(listings, thresholds, needyMin, needyMax, faults) ==
    /\ \E p \in {ProcessedPdf} : \E l \in listings :
          /\ pdf_files = l
          /\ processed = ProcessedWith(p, Range(l))
    /\ min_threshold \in thresholds
    /\ \E c \in PoolCounts(min_threshold, needyMin, needyMax) :
          /\ db = SeedRows(c)
          /\ categories = {t \in Topics : c[t] > 0}
    /\ session = <<>>
    /\ session_failed = FALSE
    /\ pc = "idle"
    /\ doc_index = 0
    /\ topic_index = 0
    /\ attempt = 0
    /\ needed_count = 0
    /\ total_added = 0
    /\ all_errors = <<>>
    /\ total_generated = 0
    /\ gen_errors = <<>>
    /\ result = NoResult
    /\ output_files = <<>>
    /\ run = 1
    /\ faults_left = faults
    /\ gen_next = 1
    /\ requests = <<>>
    /\ fault_log = <<>>
    /\ below = {}
    /\ backups = {}
    /\ categories_before = categories

\* documents in the directory, the pool at most one request short
Init == InitWith(Listings, {SmallThreshold}, 0, MaxShort, MaxFaults) /\ probe = NoProbe /\ InitNoTest

\* the same, no fault: the batch is run again over the same directory
InitRerun == InitWith(Listings, {SmallThreshold}, 0, MaxShort, 0) /\ probe = NoProbe /\ InitNoTest

\* an empty directory, the configured thresholds, a pool to fill
InitBackfill ==
    InitWith({<<>>}, {DefaultThreshold, LargeThreshold}, 1, MaxNeedy, MaxFaults) /\ probe = NoProbe /\ InitNoTest

\* The loop over COURT_REPORTER_TOPICS of maintain_question_pool, entered at
\* `topic` with the database in `rows`, and what follows its return in
\* process_pdfs.  The count query raises when the session has failed: the
\* outer except returns (0, [message]).
MaintainFrom(topic, rows, failed, generated, errors, added, errs) ==
    IF failed
    THEN /\ pc' = "done"
         /\ topic_index' = topic
         /\ attempt' = 0
         /\ needed_count' = 0
         /\ total_generated' = generated
         /\ gen_errors' = errors
         /\ total_added' = added
         /\ all_errors' = errs \o <<ErrorEntry("POOL_ERROR", "")>>
         /\ result' = Returned(added, errs \o <<ErrorEntry("POOL_ERROR", "")>>)
    ELSE IF NextNeedy(rows, topic, min_threshold) = 0
    THEN /\ pc' = "done"
         /\ topic_index' = 0
         /\ attempt' = 0
         /\ needed_count' = 0
         /\ total_generated' = generated
         /\ gen_errors' = errors
         /\ total_added' = added + generated
         /\ all_errors' = errs \o errors
         /\ result' = Returned(added + generated, errs \o errors)
    ELSE /\ pc' = "backfill"
         /\ topic_index' = NextNeedy(rows, topic, min_threshold)
         /\ attempt' = 0
         /\ needed_count' =
                min_threshold - CountRows(rows, NextNeedy(rows, topic, min_threshold))
         /\ total_generated' = generated
         /\ gen_errors' = errors
         /\ total_added' = added
         /\ all_errors' = errs
         /\ result' = result

\* QuestionPoolManager.backup_pdfs: every file of the listing is copied to
\* pdf_files/processed_backup/<timestamp>/
BackupPdfs(listing, n) ==
    {[dir |-> "processed_backup", file |-> DocPool[listing[i]].name, run |-> n]
        : i \in 1..Len(listing)}

\* process_pdfs(): QuestionPoolManager(), ensure_categories(), and
\* QuestionPoolManager.process_pdfs up to the loop over the PDF files.  No
\* study_materials*.txt file is present.  A fault is a directory that cannot
\* be made ("setup" in the constructor, "makedirs" in process_pdfs), the
\* commit of ensure_categories raising ("categories"), or backup_pdfs failing
\* at its mkdir or its first copy ("backup": it returns False, a warning is
\* logged and the run goes on).
Start ==
    /\ pc = "idle"
    /\ \E fault \in {"none", "setup", "categories", "makedirs", "backup"} :
          /\ fault /= "none" => faults_left > 0
          /\ faults_left' = IF fault = "none" THEN faults_left ELSE faults_left - 1
          /\ fault_log' = IF fault = "none" THEN fault_log
                          ELSE Append(fault_log, Fault("start", fault, ""))
          /\ categories' = IF fault \in {"setup", "categories"} THEN categories ELSE Topics
          /\ backups' = IF fault = "none" THEN backups \cup BackupPdfs(pdf_files, run)
                        ELSE backups
          /\ IF fault \in {"setup", "categories", "makedirs"}
             THEN /\ pc' = "done"
                  /\ result' = Returned(0, <<ErrorEntry(
                                  IF fault = "makedirs" THEN "CRITICAL_ERROR" ELSE "FATAL_ERROR",
                                  "")>>)
                  /\ below' = {}
                  /\ UNCHANGED <<doc_index, topic_index, attempt, needed_count, total_added,
                                 all_errors, total_generated, gen_errors>>
             ELSE IF Len(pdf_files) > 0
             THEN /\ pc' = "docs"
                  /\ doc_index' = 1
                  /\ below' = {}
                  /\ UNCHANGED <<topic_index, attempt, needed_count, total_added, all_errors,
                                 total_generated, gen_errors, result>>
             ELSE /\ MaintainFrom(1, db, FALSE, 0, <<>>, 0, <<>>)
                  /\ below' = {t \in Topics : CountRows(db, t) < min_threshold}
                  /\ UNCHANGED doc_index
    /\ UNCHANGED <<processed, pdf_files, min_threshold, db, session, session_failed, output_files, run,
                   gen_next, requests, categories_before, probe, web>>

\* What one iteration of the loop over pdf_files does to the session, for
\* file k of the pool.  fault is what the environment does in this iteration:
\* "save" (writing the JSON file raises), "query" (the first query for
\* question failAt raises), "commit" (db.session.commit() raises).
InsertPdfQuestions(k, fault, failAt) ==
    LET questions == processed[k].questions
        before == [session |-> session, failed |-> session_failed, added |-> 0,
                   errors |-> <<>>, written |-> processed[k].saved /\ fault /= "save",
                   commit |-> "none"]
    IN  IF Len(questions) = 0 \/ ~before.written THEN before
        ELSE LET st == AddPdfQuestions(before, questions, 1,
                                       IF fault = "query" THEN failAt ELSE 0,
                                       db, categories, run)
             IN  IF st.added = 0 THEN st
                 ELSE IF st.failed \/ fault = "commit"
                 THEN [st EXCEPT !.failed = TRUE, !.commit = "raised"]
                 ELSE [st EXCEPT !.commit = "done"]

\* a fault is drawn only where the code reaches the call that raises
PdfFaultApplies(k, fault, failAt) ==
    CASE fault = "none" -> failAt = 0
      [] fault = "save" -> failAt = 0 /\ processed[k].saved
      [] fault = "query" ->
            /\ processed[k].saved
            /\ ~session_failed
            /\ failAt \in 1..Len(processed[k].questions)
      [] fault = "commit" ->
            failAt = 0 /\ InsertPdfQuestions(k, "none", 0).commit = "done"

\* QuestionPoolManager.process_pdfs: one iteration of the loop over pdf_files
\* and, after the last file, maintain_question_pool up to its first request.
ProcessPdfFile ==
    /\ pc = "docs"
    /\ \E fault \in {"none", "save", "query", "commit"}, failAt \in 0..MaxDocQuestions :
          LET k == pdf_files[doc_index]
              name == DocPool[k].name
              st == InsertPdfQuestions(k, fault, failAt)
              errs == all_errors \o MessagesOf(processed[k].errors) \o st.errors \o
                      (IF st.commit = "raised"
                       THEN <<ErrorEntry("PDF_ERROR", name)>> ELSE <<>>)
              added == IF st.commit = "done" THEN total_added + st.added ELSE total_added
          IN  /\ fault /= "none" => faults_left > 0
              /\ PdfFaultApplies(k, fault, failAt)
              /\ faults_left' = IF fault = "none" THEN faults_left ELSE faults_left - 1
              /\ fault_log' = IF fault = "none" THEN fault_log
                              ELSE Append(fault_log, Fault("docs", fault, name))
              /\ db' = IF st.commit = "done" THEN Commit(db, st.session) ELSE db
              /\ session' = IF st.commit = "done" THEN <<>> ELSE st.session
              /\ session_failed' = st.failed
              /\ output_files' =
                    IF st.written
                    THEN Append(output_files,
                                [source_file |-> name,
                                 total_questions |-> processed[k].total_questions])
                    ELSE output_files
              /\ IF doc_index < Len(pdf_files)
                 THEN /\ doc_index' = doc_index + 1
                      /\ total_added' = added
                      /\ all_errors' = errs
                      /\ below' = below
                      /\ UNCHANGED <<pc, topic_index, attempt, needed_count, total_generated,
                                     gen_errors, result>>
                 ELSE /\ doc_index' = doc_index + 1
                      /\ MaintainFrom(1, db', st.failed, 0, <<>>, added, errs)
                      /\ below' = IF st.failed THEN {}
                                  ELSE {t \in Topics : CountRows(db', t) < min_threshold}
    /\ UNCHANGED <<processed, pdf_files, min_threshold, categories, run, gen_next, requests,
                   backups, categories_before, probe, web>>

Max(a, b) == IF a >= b THEN a ELSE b

\* what the service call of one request comes to
ApiOutcome(outcome, count) ==
    CASE outcome = "raise" -> [kind |-> "raise", first |-> 0, n |-> 0]
      [] outcome = "fallback" -> [kind |-> "fallback", first |-> 0, n |-> 0]
      [] outcome = "extra" -> [kind |-> "content", first |-> gen_next, n |-> count + MaxExtra]
      [] outcome = "repeat" -> [kind |-> "content", first |-> 1, n |-> count]
      [] OTHER -> [kind |-> "content", first |-> gen_next, n |-> count]

\* The body of `for attempt in range(retries)` for one request, for the
\* questions generate_questions returned: what it does to the session.
InsertGenerated(gen, outcome) ==
    LET before == [session |-> session, failed |-> session_failed, added |-> 0,
                   errors |-> <<>>, raised |-> gen.raised, commit |-> "none"]
    IN  IF gen.raised \/ Len(gen.questions) = 0 THEN before
        ELSE IF session_failed THEN [before EXCEPT !.raised = TRUE]
        ELSE IF outcome = "query"
        THEN [before EXCEPT !.failed = TRUE,
                            !.errors = [i \in 1..Len(gen.questions) |->
                                           ErrorEntry("ADD_QUESTION_ERROR", topic_index)]]
        ELSE LET st == AddGeneratedQuestions(before, gen.questions, 1, db, run)
             IN  IF st.added = 0 THEN st
                 ELSE IF outcome = "commit"
                 THEN [st EXCEPT !.failed = TRUE, !.raised = TRUE, !.commit = "raised"]
                 ELSE [st EXCEPT !.commit = "done"]

\* QuestionPoolManager.maintain_question_pool: one request to the generator
\* with what follows it (the inserts, the commit, the except clause, the end
\* of the attempts of the category, the next category below the threshold,
\* the return to process_pdfs and its return).  outcome is what the
\* environment does: the service answers with exactly the questions asked for
\* ("exact"), raises, answers nothing usable ("fallback"), answers with more
\* questions than asked for ("extra"), answers with questions it has written
\* before ("repeat"); "query": the queries of the insert loop raise;
\* "commit": the commit raises.
Request(outcome, budgeted) ==
          LET count == BatchSize(needed_count)
              api == ApiOutcome(outcome, count)
              gen == GenerateQuestions(topic_index, count, api)
              st == InsertGenerated(gen, outcome)
              last == attempt = Retries - 1
              errors == gen_errors \o st.errors \o
                        (IF st.raised /\ last
                         THEN <<ErrorEntry("GENERATION_FAILED", topic_index)>> ELSE <<>>)
              generated == IF st.commit = "done" THEN total_generated + st.added
                           ELSE total_generated
              needed == IF st.commit = "done" THEN needed_count - st.added ELSE needed_count
              leave == \/ last
                       \/ ~st.raised /\ Len(gen.questions) > 0 /\ needed <= 0
          IN  /\ (budgeted /\ outcome /= "exact") => faults_left > 0
              /\ outcome = "repeat" => gen_next > 1
              /\ outcome \in {"query", "commit"} =>
                    ~session_failed /\ InsertGenerated(gen, "exact").commit = "done"
              /\ faults_left' = IF budgeted /\ outcome /= "exact" THEN faults_left - 1
                                ELSE faults_left
              /\ fault_log' = IF outcome = "exact" THEN fault_log
                              ELSE Append(fault_log, Fault("backfill", outcome, topic_index))
              /\ requests' = Append(requests,
                                    [topic |-> topic_index, size |-> count,
                                     persisted |-> CountRows(db, topic_index),
                                     needed |-> needed_count, outcome |-> outcome,
                                     returned |-> Len(gen.questions),
                                     added |-> IF st.commit = "done" THEN st.added ELSE 0])
              /\ gen_next' = IF api.kind = "content" THEN Max(gen_next, api.first + api.n)
                             ELSE gen_next
              /\ db' = IF st.commit = "done" THEN Commit(db, st.session) ELSE db
              /\ session' = IF st.commit = "done" THEN <<>> ELSE st.session
              /\ session_failed' = st.failed
              /\ IF leave
                 THEN MaintainFrom(topic_index + 1, db', st.failed, generated, errors,
                                   total_added, all_errors)
                 ELSE /\ attempt' = attempt + 1
                      /\ needed_count' = needed
                      /\ total_generated' = generated
                      /\ gen_errors' = errors
                      /\ UNCHANGED <<pc, topic_index, total_added, all_errors, result>>
              /\ UNCHANGED <<processed, pdf_files, min_threshold, categories, doc_index,
                             output_files, run, below, backups, categories_before, probe, web>>

\* a request while the service answers, or fails within the fault budget
BackfillRequest ==
    /\ pc = "backfill"
    /\ \E outcome \in {"exact", "raise", "fallback", "extra", "repeat", "query", "commit"} :
          Request(outcome, TRUE)

\* a request while the service is down: every call of generate_questions
\* raises, or falls back to FALLBACK_QUESTIONS
RequestServiceDown ==
    /\ pc = "backfill"
    /\ \E outcome \in {"raise", "fallback"} : Request(outcome, FALSE)

\* process_pdfs() is called again: a new application context, a new session
Restart ==
    /\ pc = "done"
    /\ run < MaxRuns
    /\ pc' = "idle"
    /\ run' = run + 1
    /\ session' = <<>>
    /\ session_failed' = FALSE
    /\ doc_index' = 0
    /\ topic_index' = 0
    /\ attempt' = 0
    /\ needed_count' = 0
    /\ total_added' = 0
    /\ all_errors' = <<>>
    /\ total_generated' = 0
    /\ gen_errors' = <<>>
    /\ result' = NoResult
    /\ requests' = <<>>
    /\ below' = {}
    /\ categories_before' = categories
    /\ UNCHANGED <<processed, pdf_files, min_threshold, categories, db, output_files, faults_left,
                   gen_next, fault_log, backups, probe, web>>

Next ==
    \/ Start
    \/ ProcessPdfFile
    \/ BackfillRequest

NextRerun ==
    \/ Start
    \/ ProcessPdfFile
    \/ BackfillRequest
    \/ Restart

NextBackfill ==
    \/ Start
    \/ BackfillRequest

Spec == Init /\ [][Next]_vars

SpecRerun == InitRerun /\ [][NextRerun]_vars

SpecBackfill == InitBackfill /\ [][NextBackfill]_vars

\* documents in the directory, a pool with categories to fill, the service down
InitOutage == InitWith(Listings, {SmallThreshold}, 1, MaxShort, 0) /\ probe = NoProbe /\ InitNoTest

NextOutage ==
    \/ Start
    \/ ProcessPdfFile
    \/ RequestServiceDown

SpecOutage == InitOutage /\ [][NextOutage]_vars

TypeOK ==
    /\ pc \in {"idle", "docs", "backfill", "done"}
    /\ faults_left \in 0..MaxFaults
    /\ run \in 1..MaxRuns

(***************************************************************************)
(* One QuestionProcessor, process_pdf called on it for one file after      *)
(* another, as the loop of QuestionPoolManager.process_pdfs does.          *)
(***************************************************************************)
\* calls of process_pdf on the processor in one behaviour
MaxCalls == 3

\* the files the calls are made for
UnitPool ==
    << PdfFile("header.pdf", <<Page(PageHeader)>>),
       PdfFile("sections.pdf", <<Page(PageSections)>>),
       PdfFile("rejected.pdf", <<Page(PageRejected)>>),
       PdfFile("corrupt.pdf", <<>>),
       PdfFile("unmarked.pdf", <<BrokenPage, Page(PageUnmarked)>>) >>

\* probe.self is the parsing state of the processor, probe.calls the files
\* process_pdf was called for, probe.result what the last call returned,
\* probe.fresh[k] what a new processor returns for file k
InitProcessor ==
    /\ InitWith({<<>>}, {SmallThreshold}, 0, 0, 0)
    /\ InitNoTest
    /\ \E f \in {[k \in DOMAIN UnitPool |-> ProcessPdf(UnitPool[k])]} :
          probe = [op |-> "process_pdf", self |-> NewProcessor, calls |-> <<>>,
                   result |-> ProcessPdf(UnitPool[4]), fresh |-> f]

\* self.pdf_processor.process_pdf(pdf_file.name)
ProcessorCall ==
    /\ probe.op = "process_pdf"
    /\ Len(probe.calls) < MaxCalls
    /\ \E k \in DOMAIN UnitPool : \E r \in {ProcessPdfOn(probe.self, UnitPool[k])} :
          probe' = [probe EXCEPT !.self = [errors |-> r.errors,
                                           current_category |-> r.current_category],
                                 !.calls = Append(@, k),
                                 !.result = r]
    /\ UNCHANGED <<processed, pdf_files, min_threshold, categories, db, session, session_failed,
                   pc, doc_index, topic_index, attempt, needed_count, total_added, all_errors,
                   total_generated, gen_errors, result, output_files, run, faults_left,
                   gen_next, requests, fault_log, below, backups, categories_before, web>>

NextProcessor == ProcessorCall

SpecProcessor == InitProcessor /\ [][NextProcessor]_vars

(***************************************************************************)
(* Single calls of methods of QuestionProcessor: probe.arg is the input of *)
(* the call, probe.result what it returned.                                *)
(***************************************************************************)
\* the files validate_file and process_pdf are called for
FileInputs ==
    {[name |-> "input.pdf", exists |-> e, stat |-> st, size |-> sz, mime |-> m,
      reader |-> r, pages |-> pg] :
        e \in BOOLEAN, st \in {"ok", "raises"},
        sz \in {0, 1024, MAX_FILE_SIZE, MAX_FILE_SIZE + 1},
        m \in {"application/pdf", "binary/octet-stream", "text/plain", "raises"},
        r \in {"ok", "raises"},
        pg \in {<<>>, <<BrokenPage, Page(PageRejected)>>}}

InitValidateFile ==
    \E doc \in FileInputs :
        probe = [op |-> "validate_file", arg |-> doc, done |-> FALSE]

\* processor.validate_file(path) and processor.process_pdf(path), each on a
\* new processor
ValidateFileCall ==
    /\ probe.op = "validate_file" /\ ~probe.done
    /\ \E v \in {ValidateFile(probe.arg)}, e \in {ValidateFileErrors(probe.arg)},
          r \in {ProcessPdf(probe.arg)} :
          probe' = [op |-> "validate_file", arg |-> probe.arg, done |-> TRUE,
                    result |-> [returned |-> v, errors |-> e, process_pdf |-> r]]

\* keywords in one text handed to _detect_category
MaxKeywords == 3

\* 'court', 'law', 'ethics', 'grammar', 'writing', 'record'
DetectWords ==
    {CategoryKeywords[1][3], CategoryKeywords[1][4], CategoryKeywords[2][1],
     CategoryKeywords[3][1], CategoryKeywords[3][4], CategoryKeywords[4][4]}

InitDetectCategory ==
    \E ws \in UNION {[1..n -> DetectWords] : n \in 0..MaxKeywords} :
        probe = [op |-> "_detect_category", arg |-> Join(ws, <<" ">>), done |-> FALSE]

\* processor._detect_category(text) on a new processor
DetectCategoryCall ==
    /\ probe.op = "_detect_category" /\ ~probe.done
    /\ \E r \in {DetectCategory(probe.arg, <<>>)} :
          probe' = [op |-> "_detect_category", arg |-> probe.arg, done |-> TRUE, result |-> r]

\* questions in one list handed to save_questions
MaxSaved == 2

\* 'a"b', a backslash and 'n', 'x' newline 'y', 't' tab '|'
SampleStrings ==
    << <<"a", "\"", "b">>, <<"\\", "n">>, <<"x", "\n", "y">>, <<"t", "\t", "|">> >>

\* Question objects: the first set passes the validation of save_questions,
\* the second does not (two wrong answers, a blank answer, an unknown category)
SampleQuestions ==
    {MakeQuestion(SampleStrings[i], SampleStrings[j],
                  <<SampleStrings[j], SampleStrings[i], SampleStrings[4]>>,
                  CategoryNames[i], <<"a", ".", "p", "d", "f">>) : i \in 1..3, j \in 1..3}
    \cup {MakeQuestion(SampleStrings[1], SampleStrings[2], <<SampleStrings[3], SampleStrings[4]>>,
                       CategoryNames[1], <<"a", ".", "p", "d", "f">>),
          MakeQuestion(SampleStrings[1], <<" ">>,
                       <<SampleStrings[1], SampleStrings[2], SampleStrings[3]>>,
                       CategoryNames[1], <<"a", ".", "p", "d", "f">>),
          MakeQuestion(SampleStrings[1], SampleStrings[2],
                       <<SampleStrings[1], SampleStrings[2], SampleStrings[3]>>,
                       SampleStrings[4], <<"a", ".", "p", "d", "f">>)}

InitSaveQuestions ==
    \E qs \in UNION {[1..n -> SampleQuestions] : n \in 0..MaxSaved} :
        probe = [op |-> "save_questions", arg |-> qs, done |-> FALSE]

\* processor.save_questions(questions, name), then json.load of the file and
\* Question(...) of every entry of "questions"
SaveQuestionsCall ==
    /\ probe.op = "save_questions" /\ ~probe.done
    /\ \E saved \in {SaveQuestions(probe.arg, FALSE)} :
          probe' = [op |-> "save_questions", arg |-> probe.arg, done |-> TRUE,
                    result |->
                        IF ~saved.written
                        THEN [written |-> FALSE]
                        ELSE [written |-> TRUE,
                              file |-> DumpFile(saved.file),
                              reloaded |-> [i \in 1..Len(saved.file.questions) |->
                                              LoadQuestion(DumpFile(saved.file).questions[i])]]]

\* 'pay the ' and a number of 4301 digits
LongNumberAnswer == <<"p", "a", "y", " ", "t", "h", "e", " ">> \o [i \in 1..4301 |-> "1"]

\* self.current_category when a synthesizer is called: None, a key of
\* CATEGORIES, or another name
SynthContexts == {<<>>, <<"O", "t", "h", "e", "r">>} \cup Range(CategoryNames)

InitWrongAnswers ==
    \E a \in Range(SampleAnswers) \cup {LongNumberAnswer}, c \in SynthContexts,
       api \in {"raise", "nothing", "answers"} :
        probe = [op |-> "wrong_answers",
                 arg |-> [correct_answer |-> a, current_category |-> c, api |-> api],
                 done |-> FALSE]

\* the three synthesizers called with one correct answer;
\* _generate_context_aware_wrong_answers with the category _detect_category
\* gives for it
WrongAnswersCall ==
    /\ probe.op = "wrong_answers" /\ ~probe.done
    /\ \E r \in {[context_aware |->
                    GenerateContextAwareWrongAnswersOn(
                        probe.arg.current_category, probe.arg.api, probe.arg.correct_answer,
                        DetectCategory(probe.arg.correct_answer, probe.arg.current_category)),
                  wrong_answers |->
                    GenerateWrongAnswers(probe.arg.correct_answer, probe.arg.current_category,
                                         probe.arg.api),
                  fallback |-> GenerateFallbackWrongAnswers(probe.arg.correct_answer)]} :
          probe' = [op |-> "wrong_answers", arg |-> probe.arg, done |-> TRUE, result |-> r]

\* pages of one file handed to extract_text
MaxPages == 3

\* a page that raises, a page without text, a page of whitespace, two pages
\* of text
PageKinds ==
    {BrokenPage, Page(<<>>), Page(<<" ", "\n", " ">>), Page(PageRejected), Page(PageHeader)}

InitExtractText ==
    \E pg \in UNION {[1..n -> PageKinds] : n \in 0..MaxPages}, r \in {"ok", "raises"} :
        probe = [op |-> "extract_text",
                 arg |-> [name |-> "input.pdf", exists |-> TRUE, stat |-> "ok", size |-> 1024,
                          mime |-> "application/pdf", reader |-> r, pages |-> pg],
                 done |-> FALSE]

\* processor.extract_text(path) on a new processor
ExtractTextCall ==
    /\ probe.op = "extract_text" /\ ~probe.done
    /\ \E r \in {ExtractText(probe.arg)} :
          probe' = [op |-> "extract_text", arg |-> probe.arg, done |-> TRUE, result |-> r]

\* lines of one text handed to _clean_text
MaxLines == 5

\* a line of text, an empty line, a line of one space
LineKinds == {<<"A", "b", ".">>, <<>>, <<" ">>}

InitCleanText ==
    \E ls \in UNION {[1..n -> LineKinds] : n \in 1..MaxLines} :
        probe = [op |-> "_clean_text", arg |-> Join(ls, <<"\n">>), done |-> FALSE]

\* processor._clean_text(text)
CleanTextCall ==
    /\ probe.op = "_clean_text" /\ ~probe.done
    /\ \E r \in {CleanText(probe.arg)} :
          probe' = [op |-> "_clean_text", arg |-> probe.arg, done |-> TRUE, result |-> r]


\* failures of one attempt that should_retry_error accepts
RetryableResponses ==
    {Response("http", s, 0) : s \in {429, 500, 502, 503, 504}}
        \cup {Response("ConnectionError", 0, 0), Response("Timeout", 0, 0)}

\* answers that end the call
FinalResponses ==
    {Response("http", 200, 2), Response("http", 200, 0), Response("http", 400, 0),
     Response("http", 401, 0), Response("bad_json", 200, 0)}

\* the service fails the same way `failures` times and then answers
InitGenerateQuestions ==
    \E topic \in {1, 3}, count \in {0, 3}, failures \in 0..StopAfterAttempt,
       f \in RetryableResponses, r \in FinalResponses :
        probe = [op |-> "generate_questions",
                 arg |-> [topic |-> topic, count |-> count,
                          responses |-> [i \in 1..(StopAfterAttempt + 1) |->
                                            IF i <= failures THEN f ELSE r]],
                 done |-> FALSE]

\* generate_questions(topic, count)
GenerateQuestionsCall ==
    /\ probe.op = "generate_questions" /\ ~probe.done
    /\ \E r \in {GenerateQuestionsRetrying(probe.arg.topic, probe.arg.count, probe.arg.responses)} :
          probe' = [op |-> "generate_questions", arg |-> probe.arg, done |-> TRUE, result |-> r]

(***************************************************************************)
(* routes.submit_test and TestQuestion.update_performance.                 *)
(***************************************************************************)
\* the questions of the test (new_test selects ten or more; deleting
\* questions removes their TestQuestion rows)
TestSize == 3

\* the requests a behaviour makes
MaxSubmits == 3

\* what a request can carry for one question: nothing (or an empty string),
\* the text of the correct answer, another text
Answers == {"", "a", "b"}

\* UserQuestionPerformance(user_id, question_id); ease_factor is in tenths
NewPerformance ==
    [total_attempts |-> 0, correct_attempts |-> 0, consecutive_correct |-> 0,
     ease_factor |-> 25, interval_days |-> 1, last_attempt_date |-> 0]

\* what earlier tests of the owner left: the first question is new to the
\* owner, the second was answered right once, the others wrong once
EarlierAttempts(q) == IF q = 1 THEN 0 ELSE 1

EarlierCorrect(q) == IF q = 2 THEN 1 ELSE 0

\* the row of the owner for question q when the test is made
OldPerformance(q) ==
    [total_attempts |-> EarlierAttempts(q), correct_attempts |-> EarlierCorrect(q),
     consecutive_correct |-> EarlierCorrect(q),
     ease_factor |-> IF EarlierCorrect(q) = 1 THEN 26 ELSE 23, interval_days |-> 1,
     last_attempt_date |-> 0]

\* a Question row: success_rate is successes / times_used
UsedQuestion(times_used, successes) ==
    [correct_answer |-> "a", times_used |-> times_used, successes |-> successes,
     last_used |-> 0]

\* a test new_test has committed: no answer yet
InitTest ==
    /\ test = [completed |-> FALSE, score |-> <<>>]
    /\ test_questions = [i \in 1..TestSize |->
                            [question_id |-> i, user_answer |-> "", is_correct |-> <<>>]]
    /\ user_question_performance =
          [q \in 1..TestSize |->
              IF EarlierAttempts(q) = 0 THEN <<>> ELSE <<OldPerformance(q)>>]
    /\ question_table =
          [q \in 1..TestSize |-> UsedQuestion(EarlierAttempts(q), EarlierCorrect(q))]
    /\ response = NoResponse
    /\ utcnow = 0

\* TestQuestion.update_performance up to its commit, for the row at place i
\* of st.test_questions; the row has no response_time
UpdatePerformance(st, i, now) ==
    LET self == st.test_questions[i]
        q == self.question_id
        is_correct == self.is_correct = <<TRUE>>
        found == st.user_question_performance[q]
        perf == IF found = <<>> THEN NewPerformance ELSE found[1]
        consecutive_correct == IF is_correct THEN perf.consecutive_correct + 1 ELSE 0
        ease_factor == IF is_correct THEN Max(13, perf.ease_factor + 1)
                       ELSE Max(13, perf.ease_factor - 2)
        interval_days ==
            IF ~is_correct THEN 1
            ELSE IF consecutive_correct = 1 THEN 1
            ELSE IF consecutive_correct = 2 THEN 6
            ELSE (perf.interval_days * ease_factor) \div 10
        question == st.question_table[q]
    IN  [st EXCEPT
            !.user_question_performance[q] =
                <<[total_attempts |-> perf.total_attempts + 1,
                   correct_attempts |-> IF is_correct THEN perf.correct_attempts + 1
                                        ELSE perf.correct_attempts,
                   consecutive_correct |-> consecutive_correct,
                   ease_factor |-> ease_factor,
                   interval_days |-> interval_days,
                   last_attempt_date |-> now]>>,
            !.question_table[q] =
                [question EXCEPT !.times_used = question.times_used + 1,
                                 !.successes = question.successes
                                                  + (IF is_correct THEN 1 ELSE 0),
                                 !.last_used = now]]

\* The loop of submit_test over test.questions from place i on.  st is the
\* committed state: update_performance ends with db.session.commit().
\* fail_at is the place whose commit raises (0: none); the handler of
\* submit_test then rolls back what that iteration changed.
RECURSIVE AnswerLoop(_, _, _, _, _)
AnswerLoop(st, i, data, fail_at, now) ==
    IF i > Len(st.test_questions) THEN [st EXCEPT !.outcome = "answered"]
    ELSE LET answer == data[i]
             question_id == st.test_questions[i].question_id
             is_correct == answer = st.question_table[question_id].correct_answer
             marked == [st EXCEPT !.test_questions[i].user_answer = answer,
                                  !.test_questions[i].is_correct = <<is_correct>>,
                                  !.correct_count = IF is_correct THEN st.correct_count + 1
                                                    ELSE st.correct_count]
         IN  IF answer = "" THEN [st EXCEPT !.outcome = "missing"]
             ELSE IF fail_at = i THEN [st EXCEPT !.outcome = "raised"]
             ELSE AnswerLoop(UpdatePerformance(marked, i, now), i + 1, data, fail_at, now)

\* submit_test(test_id) for a request of `user` carrying `data`
SubmitTestOn(user, data, fail_at, now) ==
    LET before == [test |-> test, test_questions |-> test_questions,
                   user_question_performance |-> user_question_performance,
                   question_table |-> question_table, correct_count |-> 0,
                   outcome |-> "none", response |-> NoResponse]
        answered(status, error, st) == [st EXCEPT !.response = [status |-> status, error |-> error]]
    IN  IF user /= "owner" THEN answered(403, "Unauthorized", before)
        ELSE IF \A i \in DOMAIN data : data[i] = ""
        THEN answered(400, "No answer data provided", before)
        ELSE LET st == AnswerLoop(before, 1, data, fail_at, now)
             IN  IF st.outcome = "missing"
                 THEN answered(400, "All questions must be answered", st)
                 ELSE IF st.outcome = "raised" \/ fail_at = Len(test_questions) + 1
                 THEN answered(500, "An error occurred while submitting the test", st)
                 ELSE answered(200, "",
                               [st EXCEPT !.test = [completed |-> TRUE,
                                                    score |-> <<st.correct_count,
                                                                Len(test_questions)>>]])

\* a database fault is drawn only where the request reaches that commit
SubmitFaultApplies(user, data, fail_at) ==
    fail_at > 0 =>
        /\ user = "owner"
        /\ \A i \in DOMAIN data : i <= fail_at => data[i] /= ""

\* one POST /test/<test_id>/submit
SubmitTest ==
    /\ utcnow < MaxSubmits
    /\ \E user \in {"owner", "other"}, data \in [1..TestSize -> Answers],
          fail_at \in 0..(TestSize + 1) :
          /\ SubmitFaultApplies(user, data, fail_at)
          /\ \E st \in {SubmitTestOn(user, data, fail_at, utcnow + 1)} :
                /\ test' = st.test
                /\ test_questions' = st.test_questions
                /\ user_question_performance' = st.user_question_performance
                /\ question_table' = st.question_table
                /\ response' = st.response
    /\ utcnow' = utcnow + 1
    /\ UNCHANGED <<processed, pdf_files, min_threshold, categories, db, session, session_failed,
                   pc, doc_index, topic_index, attempt, needed_count, total_added, all_errors,
                   total_generated, gen_errors, result, output_files, run, faults_left,
                   gen_next, requests, fault_log, below, backups, categories_before, probe>>

InitSubmit ==
    /\ InitWith({<<>>}, {SmallThreshold}, 0, 0, 0)
    /\ probe = NoProbe
    /\ InitTest

NextSubmit == SubmitTest

SpecSubmit == InitSubmit /\ [][NextSubmit]_vars

(***************************************************************************)
(* What the specification expects of the lettered example.                 *)
(***************************************************************************)
\* 'What must a reporter do upon discovering a conflict?'
LetteredQuestion ==
    <<"W","h","a","t"," ","m","u","s","t"," ","a"," ","r","e","p","o","r","t","e","r"," ","d","o",
    " ","u","p","o","n"," ","d","i","s","c","o","v","e","r","i","n","g"," ","a"," ","c","o","n","f",
    "l","i","c","t","?">>

\* 'Notify all parties within 3 days.'
LetteredCorrect ==
    <<"N","o","t","i","f","y"," ","a","l","l"," ","p","a","r","t","i","e","s"," ","w","i","t","h",
    "i","n"," ","3"," ","d","a","y","s",".">>

LetteredWrong ==
    <<<<"I","g","n","o","r","e"," ","i","t",".">>,<<"R","e","s","i","g","n"," ","i","m","m","e","d",
    "i","a","t","e","l","y",".">>,<<"W","a","i","t"," ","f","o","r"," ","i","n","q","u","i","r","y",
    ".">>>>

MarkerWords ==
    <<<<"c","o","r","r","e","c","t">>,<<"a","n","s","w","e","r">>,<<"k","e","y",":">>,<<"o","p","t",
    "i","o","n"," ">>,<<"i","s"," ","t","h","e"," ","b","e","s","t">>>>

InitFunctions ==
    /\ InitWith({<<>>}, {SmallThreshold}, 0, 0, 0)
    /\ InitNoTest
    /\ \/ InitValidateFile
       \/ InitDetectCategory
       \/ InitSaveQuestions
       \/ InitWrongAnswers
       \/ InitExtractText
       \/ InitCleanText
       \/ InitGenerateQuestions

NextFunctions ==
    /\ \/ ValidateFileCall
       \/ DetectCategoryCall
       \/ SaveQuestionsCall
       \/ WrongAnswersCall
       \/ ExtractTextCall
       \/ CleanTextCall
       \/ GenerateQuestionsCall
    /\ UNCHANGED <<processed, pdf_files, min_threshold, categories, db, session, session_failed,
                   pc, doc_index, topic_index, attempt, needed_count, total_added, all_errors,
                   total_generated, gen_errors, result, output_files, run, faults_left,
                   gen_next, requests, fault_log, below, backups, categories_before, web>>

SpecFunctions == InitFunctions /\ [][NextFunctions]_vars

(***************************************************************************)
(* Properties.                                                             *)
(***************************************************************************)
\* the places <<category_id, position>> of the persisted rows
Persisted == UNION {{<<t, i>> : i \in 1..Len(db[t])} : t \in Topics}

RowAt(at) == db[at[1]][at[2]]

\* the persisted rows of one origin, by their places
RowsOf(origin) == {at \in Persisted : RowAt(at).origin = origin}

\* the four answers of a row, lower-cased
AnswersLower(row) ==
    <<Lower(row.correct_answer)>> \o
    [k \in 1..Len(row.wrong_answers) |-> Lower(row.wrong_answers[k])]

\* a run has returned and the environment has raised nothing in it
DoneNoFault == pc = "done" /\ fault_log = <<>>

\* C1: every question the document pipeline has inserted has three wrong
\* answers, and its correct answer and wrong answers are pairwise distinct
\* when compared without regard to case.
C1_PdfAnswersPairwiseDistinct ==
    \A at \in RowsOf("pdf") :
        /\ Len(RowAt(at).wrong_answers) = 3
        /\ \A i, j \in 1..4 :
              i /= j => AnswersLower(RowAt(at))[i] /= AnswersLower(RowAt(at))[j]

\* C2: when the batch is run again over the same directory, the second run
\* adds no question extracted from a document, to the table or to the
\* session: every document question was persisted by the first run.
C2_RerunInsertsNoDocumentQuestion ==
    /\ \A at \in RowsOf("pdf") : RowAt(at).run = 1
    /\ \A i \in 1..Len(session) : session[i].origin = "pdf" => session[i].run = 1

\* C2 witness: the second run has returned over a directory that holds the
\* file with the same question twice, and document questions are persisted.
C2_SecondRunReturned ==
    /\ run = 2
    /\ pc = "done"
    /\ \E i \in 1..Len(pdf_files) : DocPool[pdf_files[i]].name = "repeated.pdf"
    /\ RowsOf("pdf") /= {}

\* the questions of file k are persisted under the category process_pdf gave them
QuestionsPersisted(k) ==
    \A i \in 1..Len(processed[k].questions) :
        LET q == processed[k].questions[i]
        IN  \E at \in RowsOf("pdf") :
                /\ RowAt(at).question_text = q.question_text
                /\ RowAt(at).category_id = TopicOf(q.category)

\* three files, the second with zero pages, the others with pages
CorruptSecondOfThree ==
    /\ Len(pdf_files) = 3
    /\ Len(DocPool[pdf_files[2]].pages) = 0
    /\ Len(DocPool[pdf_files[1]].pages) > 0
    /\ Len(DocPool[pdf_files[3]].pages) > 0

\* C3: for three documents of which the second has zero pages, the run
\* persists the questions of the first and the third, counts every row it
\* committed, and returns exactly one error entry about the second document.
C3_PartialFailure ==
    (DoneNoFault /\ run = 1 /\ CorruptSecondOfThree) =>
        /\ QuestionsPersisted(pdf_files[1])
        /\ QuestionsPersisted(pdf_files[3])
        /\ result.count = Cardinality(RowsOf("pdf")) + Cardinality(RowsOf("generator"))
        /\ Cardinality({i \in 1..Len(result.errors) :
                           result.errors[i].about = DocPool[pdf_files[2]].name}) = 1

\* C3 witness: such a run has returned, with questions of both documents
\* persisted and counted.
C3_PartialFailureReturned ==
    /\ DoneNoFault
    /\ run = 1
    /\ CorruptSecondOfThree
    /\ DocPool[pdf_files[1]].name = "definition.pdf"
    /\ DocPool[pdf_files[3]].name = "numeric.pdf"
    /\ Cardinality(RowsOf("pdf")) = 3
    /\ result.count >= 3

\* C4: when a run has returned, every fault raised while one PDF was
\* processed has an entry about that file in the returned error list, and a
\* failure to create the directories returns the count 0 with no document
\* processed.
C4_FaultsBecomeErrorEntries ==
    pc = "done" =>
        /\ result.returned
        /\ \A f \in 1..Len(fault_log) :
              fault_log[f].phase = "docs" =>
                 \E e \in 1..Len(result.errors) :
                    result.errors[e].about = fault_log[f].about
        /\ \A f \in 1..Len(fault_log) :
              fault_log[f].kind \in {"setup", "makedirs"} =>
                 result.count = 0 /\ doc_index = 0 /\ Len(result.errors) > 0

\* C5: every request to the generator asks for min(20, remaining need), the
\* remaining need being the threshold minus the rows persisted for the
\* category when the request is made; it never asks for more than that need,
\* and a category at 48 under the threshold 50 is asked for exactly 2.
C5_RequestSize ==
    \A i \in 1..Len(requests) :
        LET need == min_threshold - requests[i].persisted
        IN  /\ need > 0
            /\ requests[i].size = (IF need < 20 THEN need ELSE 20)
            /\ requests[i].size <= need
            /\ (min_threshold = 50 /\ requests[i].persisted = 48) => requests[i].size = 2

\* C5 witness: a category at 48 under the threshold 50 has been asked for 2,
\* and an empty one for 20.
C5_BoundaryRequested ==
    /\ min_threshold = 50
    /\ \E i \in 1..Len(requests) : requests[i].persisted = 48 /\ requests[i].size = 2
    /\ \E i \in 1..Len(requests) : requests[i].persisted = 0 /\ requests[i].size = 20

\* C6: when maintain_question_pool has finished, no category that was below
\* the threshold when it started holds more rows than the threshold.
C6_BackfillNeverOvershoots ==
    pc = "done" => \A t \in below : CountRows(db, t) <= min_threshold

\* C7: when maintain_question_pool has finished and every request was
\* answered with exactly the questions asked for, all of them new, every
\* category that was below the threshold when it started is at the threshold.
C7_BackfillReachesThreshold ==
    DoneNoFault => \A t \in below : CountRows(db, t) = min_threshold

\* the digests of the persisted rows
PersistedHashes ==
    UNION {{ContentHash(db[t][i].question_text, db[t][i].correct_answer,
                        db[t][i].wrong_answers) : i \in 1..Len(db[t])} : t \in Topics}

\* C8: no two persisted questions have the same content_hash.
C8_NoSharedContentHash == Cardinality(PersistedHashes) = Cardinality(Persisted)

\* a correct-option marker of the specification occurs in the answer section
HasMarker(answer) == \E w \in Range(MarkerWords) : Contains(Lower(answer), w)

\* C9: when a run has returned, a candidate pair whose answer section has no
\* correct-option marker has produced no question (none is persisted under its
\* question text) and the returned error list has an entry about its file.
C9_UnmarkedPairRejected ==
    DoneNoFault =>
        \A k \in DOMAIN processed : \A i \in 1..Len(processed[k].sections) :
            ~HasMarker(processed[k].sections[i][2]) =>
                /\ \A at \in RowsOf("pdf") :
                      RowAt(at).question_text /= processed[k].sections[i][1]
                /\ \E e \in 1..Len(result.errors) :
                      result.errors[e].about = DocPool[k].name

\* C10: when a run over the file with the lettered example has returned, the
\* question is persisted with the text of the marked option as its correct
\* answer and the texts of the other three options, in their order, as its
\* wrong answers.
C10_MarkedOptionIsCorrectAnswer ==
    DoneNoFault =>
        \A k \in DOMAIN processed :
            DocPool[k].name = "lettered.pdf" =>
                \E at \in RowsOf("pdf") :
                    /\ RowAt(at).question_text = LetteredQuestion
                    /\ RowAt(at).correct_answer = LetteredCorrect
                    /\ RowAt(at).wrong_answers = LetteredWrong

\* C12: every file of the listing that passes validation and whose processing
\* has begun has a backup copy made in this run.
C12_BackedUpBeforeExtraction ==
    \A i \in 1..Len(pdf_files) :
        (i < doc_index /\ ValidateFile(DocPool[pdf_files[i]])) =>
            \E b \in backups : b.file = DocPool[pdf_files[i]].name /\ b.run = run

\* C13: the Category rows are those that existed when process_pdfs() was called.
C13_CategoriesUnchanged == categories = categories_before

\* no request of this run was answered with a question
NothingGenerated == \A i \in 1..Len(requests) : requests[i].returned = 0

LastCalled == UnitPool[probe.calls[Len(probe.calls)]]

\* process_pdf has been called, and the last call was for the file `name`
CalledFor(name) ==
    probe.op = "process_pdf" /\ Len(probe.calls) > 0 /\ LastCalled.name = name

\* C16: after process_pdf of the file whose page holds a candidate that
\* validation rejects (a question line of two words, with an answer line),
\* the returned errors hold a ProcessingError for that file, and the
\* candidate that follows it is extracted.
C16_RejectedCandidateReported ==
    (/\ CalledFor("rejected.pdf")
     /\ RejectedLine \in Range(Split(PageRejected, "\n"))
     /\ IsQuestionLine(RejectedLine)
     /\ ~ValidateQuestionText(RejectedLine)) =>
        /\ Len(probe.result.questions) = 1
        /\ \E e \in Range(probe.result.errors) : e.file_name = "rejected.pdf"

\* C17: after process_pdf of the file with header "Grammar & Vocabulary
\* Questions:", a question, header "Transcription Standards Questions:" and a
\* second question, the first question is classified as Grammar & Vocabulary
\* and the second as Transcription Standards.
C17_StickyCategoryContext ==
    CalledFor("sections.pdf") =>
        /\ \E q \in Range(probe.result.questions) :
              q.question_text = SectionsFirstQuestion /\ q.category = CategoryNames[3]
        /\ \E q \in Range(probe.result.questions) :
              q.question_text = SectionsSecondQuestion /\ q.category = CategoryNames[4]

\* C19: whatever files process_pdf was called for before, a call returns the
\* questions (with their categories) and the errors that a new processor
\* returns for the file, and every error it returns names the file.
C19_NoStateAcrossDocuments ==
    (probe.op = "process_pdf" /\ Len(probe.calls) > 0) =>
        /\ probe.result.questions = probe.fresh[probe.calls[Len(probe.calls)]].questions
        /\ probe.result.errors = probe.fresh[probe.calls[Len(probe.calls)]].errors
        /\ \A e \in Range(probe.result.errors) : e.file_name = LastCalled.name

\* C19 witness: after a file with errors and a file that is a category header
\* alone, process_pdf has returned the questions of a third file, classified
\* by their keywords.
C19_QuestionsAfterHeader ==
    /\ probe.op = "process_pdf"
    /\ Len(probe.calls) = 3
    /\ UnitPool[probe.calls[1]].name = "unmarked.pdf"
    /\ UnitPool[probe.calls[2]].name = "header.pdf"
    /\ LastCalled.name = "rejected.pdf"
    /\ Len(probe.result.questions) = 1
    /\ probe.result.questions[1].category = DefaultCategory
    /\ probe.result.errors = <<>>

\* the error type validate_file is to report for a file: the one of the first
\* check that fails, in the order exists, non-empty, size, content type,
\* structure; "" when no check fails
FirstFailingCheck(doc) ==
    IF ~doc.exists THEN "FILE_NOT_FOUND"
    ELSE IF doc.stat /= "ok" THEN "VALIDATION_ERROR"
    ELSE IF doc.size < 1 THEN "EMPTY_FILE"
    ELSE IF doc.size > 20 * 1024 * 1024 THEN "FILE_TOO_LARGE"
    ELSE IF doc.mime = "raises" THEN "MIME_TYPE_ERROR"
    ELSE IF doc.mime \notin {"application/pdf", "application/x-pdf", "binary/octet-stream"}
         THEN "INVALID_FILE_TYPE"
    ELSE IF doc.reader /= "ok" THEN "PDF_STRUCTURE_ERROR"
    ELSE IF doc.pages = <<>> THEN "INVALID_PDF_STRUCTURE"
    ELSE ""

\* C11: validate_file returns True exactly when the file exists, is not empty,
\* is not larger than 20 MB, has an allowed content type and has a page;
\* otherwise it returns False with exactly one error, of the type of the first
\* failing check, and process_pdf returns no questions and only that error
\* (no page was read: no error of extract_text is among them).
C11_InputAcceptance ==
    (probe.op = "validate_file" /\ probe.done) =>
        /\ probe.result.returned = (FirstFailingCheck(probe.arg) = "")
        /\ probe.result.returned => probe.result.errors = <<>>
        /\ ~probe.result.returned =>
              /\ Len(probe.result.errors) = 1
              /\ probe.result.errors[1].error_type = FirstFailingCheck(probe.arg)
              /\ probe.result.errors[1].file_name = probe.arg.name
              /\ probe.result.process_pdf.questions = <<>>
              /\ probe.result.process_pdf.errors = probe.result.errors

\* C11 witness: a file of 20 MB and one byte that is a PDF with a page that
\* cannot be read and a page of questions has been rejected as too large.
C11_TooLargeRejected ==
    /\ probe.op = "validate_file" /\ probe.done
    /\ probe.arg.exists /\ probe.arg.stat = "ok" /\ probe.arg.size = MAX_FILE_SIZE + 1
    /\ probe.arg.mime = "application/pdf" /\ probe.arg.reader = "ok"
    /\ Len(probe.arg.pages) = 2
    /\ ~probe.result.returned
    /\ probe.result.errors[1].error_type = "FILE_TOO_LARGE"
    /\ probe.result.process_pdf.questions = <<>>

\* the categories with the highest keyword score for a text
TopCategories(text) ==
    {c \in 1..Len(CategoryNames) :
        \A d \in 1..Len(CategoryNames) :
            KeywordScore(Lower(text), d) <= KeywordScore(Lower(text), c)}

\* C18: with no category context, _detect_category returns the category with
\* the strictly highest keyword score, and the default category 'Legal &
\* Judicial Terminology' when two or more categories share the highest score.
C18_TieGivesDefault ==
    (probe.op = "_detect_category" /\ probe.done) =>
        /\ \A c \in TopCategories(probe.arg) :
              TopCategories(probe.arg) = {c} => probe.result = CategoryNames[c]
        /\ Cardinality(TopCategories(probe.arg)) > 1 => probe.result = DefaultCategory

\* the questions of a list that save_questions writes: those with non-blank
\* texts, three non-blank wrong answers and a category of CATEGORIES
WrittenOf(questions) ==
    SelectSeq(questions,
              LAMBDA q : /\ Strip(q.question_text) /= <<>> /\ Strip(q.correct_answer) /= <<>>
                         /\ Len(q.wrong_answers) = 3
                         /\ \A w \in Range(q.wrong_answers) : Strip(w) /= <<>>
                         /\ q.category \in Range(CategoryNames)
                         /\ Strip(q.source_file) /= <<>>)

\* C14: when save_questions has written a file, the Question rebuilt from the
\* saved fields of each entry equals, in all fields, the Question that was
\* written, its saved content_hash is the one of the rebuilt Question, and
\* total_questions is the number of entries of "questions".
C14_SaveRoundTrip ==
    (probe.op = "save_questions" /\ probe.done /\ probe.result.written) =>
        /\ probe.result.file.total_questions = Len(probe.result.file.questions)
        /\ Len(probe.result.reloaded) = Len(WrittenOf(probe.arg))
        /\ \A i \in 1..Len(probe.result.reloaded) :
              /\ probe.result.reloaded[i] = WrittenOf(probe.arg)[i]
              /\ JsonLoadString(probe.result.file.questions[i].content_hash)
                    = probe.result.reloaded[i].content_hash

\* C14 witness: a list of a question that is not written and a question whose
\* text is a backslash and 'n' has been saved and reloaded as one question.
C14_EscapedTextSaved ==
    /\ probe.op = "save_questions" /\ probe.done /\ probe.result.written
    /\ Len(probe.arg) = 2
    /\ Len(probe.arg[1].wrong_answers) = 2
    /\ probe.arg[2].question_text = <<"\\", "n">>
    /\ probe.arg[2].correct_answer = <<"x", "\n", "y">>
    /\ probe.result.file.total_questions = 1
    /\ probe.result.file.questions[1].question_text = <<"\"", "\\", "\\", "n", "\"">>
    /\ probe.result.reloaded[1].question_text = <<"\\", "n">>

\* a synthesizer has returned exactly three non-empty strings
ThreeNonEmpty(returned) ==
    /\ ~returned.raised
    /\ Len(returned.answers) = 3
    /\ \A k \in 1..Len(returned.answers) : Len(returned.answers[k]) > 0

\* C20: for every non-empty correct answer, every category context and every
\* outcome of the external generator, each of
\* _generate_context_aware_wrong_answers, _generate_wrong_answers and
\* _generate_fallback_wrong_answers returns exactly three non-empty strings.
C20_SynthesizersReturnThree ==
    (probe.op = "wrong_answers" /\ probe.done /\ Len(probe.arg.correct_answer) > 0) =>
        /\ ThreeNonEmpty(probe.result.context_aware)
        /\ ThreeNonEmpty(probe.result.wrong_answers)
        /\ ThreeNonEmpty(probe.result.fallback)

\* no term pair of _generate_wrong_answers or _generate_fallback_wrong_answers
\* applies to the answer
NoTermPair(answer) ==
    /\ \A c \in 1..Len(ContextOpposites) : \A k \in 1..Len(ContextOpposites[c]) :
          ~Contains(Lower(answer), ContextOpposites[c][k][1])
    /\ \A k \in 1..Len(LegalTerms) : ~Contains(Lower(answer), LegalTerms[k][1])

\* C21: for a correct answer that contains an integer and to which no term
\* pair applies, the wrong answers _generate_context_aware_wrong_answers
\* returns are the answer with the integer plus 5, minus 5 and times 2.
C21_NumericBeforeTemplates ==
    (/\ probe.op = "wrong_answers" /\ probe.done
     /\ Len(FindNumbers(probe.arg.correct_answer)) > 0
     /\ Len(FindNumbers(probe.arg.correct_answer)[1]) < 5
     /\ NoTermPair(probe.arg.correct_answer)) =>
        LET a == probe.arg.correct_answer
            num == FindNumbers(a)[1]
            n == StrToInt(num)
        IN  probe.result.context_aware.answers =
                << Replace(a, num, IntToStr(n + 5)),
                   Replace(a, num, IntToStr(n - 5)),
                   Replace(a, num, IntToStr(n * 2)) >>

\* C22: no row added by the document pipeline has a correct answer or a wrong
\* answer that is empty or has fewer than 2 words.
C22_AnswersHaveTwoWords ==
    \A at \in RowsOf("pdf") :
        /\ Len(SplitWs(RowAt(at).correct_answer)) >= 2
        /\ \A k \in 1..Len(RowAt(at).wrong_answers) :
              Len(SplitWs(RowAt(at).wrong_answers[k])) >= 2

\* the pages of a file whose extraction succeeds and whose cleaned text is not
\* empty, in page order
Contributing(pages) ==
    SelectSeq(pages, LAMBDA p : ~p.raises /\ CleanText(p.text) /= <<>>)

\* the errors of one type among the errors of a call
ErrorsOfType(errors, type) == SelectSeq(errors, LAMBDA e : e.error_type = type)

C24_BlankRunBecomesOneBlankLine ==
    (/\ probe.op = "_clean_text" /\ probe.done
     /\ Contains(probe.arg, <<".", "\n", "\n", "\n", "\n", "A">>)) =>
        /\ Contains(probe.result, <<"\n", "\n">>)
        /\ ~Contains(probe.result, <<"\n", "\n", "\n">>)

\* the requests of the run made for one category
RequestsFor(t) == {i \in 1..Len(requests) : requests[i].topic = t}

\* C25: in one run at most 3 generator requests are made for a category, and
\* every request is made for a category whose count is below the threshold
\* and whose remaining need is above 0.
C25_AttemptBound ==
    /\ \A t \in Topics : Cardinality(RequestsFor(t)) <= 3
    /\ \A i \in 1..Len(requests) :
          /\ requests[i].persisted < min_threshold
          /\ requests[i].needed > 0
          /\ requests[i].size > 0

\* C25 witness: the run has ended after 3 requests for a category that is
\* still below the threshold, with no request for a category at or above it.
C25_ThreeRequestsMade ==
    /\ pc = "done"
    /\ \E t \in Topics :
          /\ Cardinality(RequestsFor(t)) = 3
          /\ CountRows(db, t) < min_threshold
    /\ \E t \in Topics :
          /\ RequestsFor(t) = {}
          /\ CountRows(db, t) >= min_threshold


\* the attempts of a finished generate_questions call that ended in a
\* failure should_retry_error accepts
RetryableAttempts ==
    {k \in 1..probe.result.attempts : probe.arg.responses[k] \in RetryableResponses}

\* C26: a generate_questions request that fails with a retryable failure
\* (HTTP 429, 500, 502, 503, 504, connection error, timeout) is attempted
\* again, with at most five attempts in total; a non-retryable API error ends
\* the call at once with the fallback questions of the topic and no exception.
C26_RetryPolicy ==
    (probe.op = "generate_questions" /\ probe.done) =>
        /\ probe.result.attempts <= StopAfterAttempt
        /\ \A k \in RetryableAttempts :
              k < StopAfterAttempt => probe.result.attempts > k
        /\ \A k \in 1..probe.result.attempts :
              (probe.arg.responses[k].kind = "http"
                  /\ probe.arg.responses[k].status_code \in {400, 401}) =>
                 /\ probe.result.attempts = k
                 /\ ~probe.result.raised
                 /\ probe.result.questions
                       = GetFallbackQuestions(probe.arg.topic, probe.arg.count)

\* the rows the current run committed
RowsOfRun == {at \in Persisted : RowAt(at).run = run /\ RowAt(at).origin /= "seed"}

\* C27: whenever a run has returned, whatever faults it met, the count it
\* returned is the number of rows it committed to the database.
C27_CountIsRowsCommitted ==
    (pc = "done" /\ result.returned) => result.count = Cardinality(RowsOfRun)

\* the categories maintain_question_pool has finished with
FinishedWith ==
    {t \in Topics : RequestsFor(t) /= {} /\ (pc = "done" \/ t < topic_index)}

\* C28: a category that is still below the threshold when
\* maintain_question_pool has finished with it has an entry naming it in the
\* errors the run returns.
C28_ShortfallReported ==
    (pc = "done" /\ result.returned) =>
        \A t \in FinishedWith :
            CountRows(db, t) < min_threshold =>
                \E i \in 1..Len(result.errors) :
                    /\ result.errors[i].kind = "GENERATION_FAILED"
                    /\ result.errors[i].about = t

\* C29: a submit_test request that is rejected because the answer of a
\* question is missing changes no TestQuestion row, no
\* UserQuestionPerformance row and no usage statistic of a question.
C29_RejectedChangesNothing ==
    [][(response'.error = "All questions must be answered" /\ utcnow' /= utcnow) =>
          UNCHANGED <<test, test_questions, user_question_performance, question_table>>]_vars

\* question q has been scored at most once since the test was made
ScoredOnce(q) ==
    /\ user_question_performance[q] /= <<>> =>
          /\ user_question_performance[q][1].total_attempts <= EarlierAttempts(q) + 1
          /\ user_question_performance[q][1].correct_attempts <= EarlierCorrect(q) + 1
    /\ question_table[q].times_used <= EarlierAttempts(q) + 1

\* C30: whatever submit_test requests are made on a test, total_attempts,
\* correct_attempts and times_used of each of its questions grow by at most
\* one.
C30_ScoredAtMostOnce ==
    \A i \in 1..Len(test_questions) : ScoredOnce(test_questions[i].question_id)
====
